---------------------------- MODULE Spec2Model ----------------------------
(* A model of aslam::VisualNPipeline (visual-npipeline.cc): per-camera    *)
(* images are handed to a thread pool, each task runs the camera's        *)
(* VisualPipeline and then, under mutex_, files the resulting frame into  *)
(* the nearest VisualNFrame of processing_ (or a new one); a VisualNFrame *)
(* whose frames are all set is moved to completed_, from which consumers  *)
(* pull with getNext, getNextBlocking and getLatestAndClear.              *)
EXTENDS Integers, Sequences, FiniteSets, TLC

(* ------------------------------ bounds ------------------------------- *)
\* processImage is called at most MaxFrames times.
MaxFrames == 3
\* Timestamps handed to processImage are 0..MaxTime.
MaxTime == 2
\* The camera counts and the tolerances pipelines are constructed with.
CameraCounts == {1, 2}
Tolerances == {0, 1}
\* The shift the per-camera pipeline's timestamp corrector applies.
TimestampShift == 1

(* ------------------------------ threads ------------------------------ *)
\* The worker threads of thread_pool_ and the consumer threads.
Workers == {1, 2}
Consumers == {3, 4}
OneConsumer == {3}
NoOwner == 0

VARIABLES
  numCameras,               \* pipelines_.size() == output_camera_system_->numCameras()
  timestamp_tolerance_ns_,  \* the tolerance given at construction
  submitted,                \* the processImage calls so far, in call order: [cam, ts]
  tasks,                    \* thread_pool_'s queue: indices into submitted, FIFO
  wpc,                      \* where each worker is in ThreadPool::run / work()
  wframe,                   \* the task a worker runs and the frame its pipeline returned
  proc_it,                  \* work()'s local iterator into processing_ (a key, or End)
  mutex_,                   \* owner of mutex_, or NoOwner
  processing_,              \* std::map timestamp -> VisualNFrame (frame id per camera)
  completed_,               \* std::map timestamp -> VisualNFrame
  cv_waiters,               \* threads blocked in cv_new_nframe_.wait
  cpc,                      \* where each consumer is
  cop,                      \* the accessor a consumer is in
  rval,                     \* the value the accessor is about to return
  crashed,                  \* a CHECK failed: the process aborted
  lastNext,                 \* history: timestamp of the last bundle getNext returned
  lateCompletion,           \* history: a bundle older than lastNext completed since
  delivered,                \* history: the bundles handed out, each with its consumer
  everCompleted,            \* history: the bundles whose last frame has been set
  installed,                \* history: the frames setFrame has been called with
  args,                     \* the arguments the constructor was called with
  thread_pool_,             \* the ThreadPool: "null", "running", "stopping", "stopped"
  destroyed,                \* the members of the pipeline have been released
  test_vector,              \* stl-helpers: the vector given to eraseIndicesFromVector
  indices_to_remove,        \* stl-helpers: the indices given to it
  result_vector,            \* stl-helpers: what it returned, once it has
  id_a,                     \* hash-id: a HashId
  id_b,                     \* hash-id: the HashId fromHexString is called on
  hex_as,                   \* hash-id: the string a.hexString() returned, once it has
  from_hex,                 \* hash-id: what b.fromHexString(as) returned, once it has
  num_frames,               \* the size getNumFramesComplete/Processing is about to return
  tag_map_,                 \* statistics: the handle of each tag
  stats_collectors_,        \* statistics: the collectors, indexed by handle
  max_tag_length_,          \* statistics: the longest tag seen
  stat_mutex_,              \* statistics: the thread holding Statistics::mutex_
  call,                     \* statistics: the call each thread is in
  resets,                   \* history: the calls of Reset() so far
  issued                    \* history: the handles GetHandle returned

vars == <<numCameras, timestamp_tolerance_ns_, submitted, tasks, wpc, wframe,
          proc_it, mutex_, processing_, completed_, cv_waiters, cpc, cop, rval,
          crashed, lastNext, lateCompletion, delivered, everCompleted,
          installed, args, thread_pool_, destroyed, test_vector,
          indices_to_remove, result_vector, id_a, id_b, hex_as, from_hex,
          num_frames, tag_map_, stats_collectors_, max_tag_length_,
          stat_mutex_, call, resets, issued>>

\* The state of the helper classes, which no step of a pipeline touches.
stlVars == <<test_vector, indices_to_remove, result_vector>>
hashVars == <<id_a, id_b, hex_as, from_hex>>
\* What only the constructor and the destructor change.
lifeVars == <<numCameras, timestamp_tolerance_ns_, args, thread_pool_, destroyed>>
\* What no step of a constructed, running pipeline changes.
\* What the size accessors return.
sizeVars == <<num_frames>>
\* The statistics registry, which no step of a pipeline touches.
statVars == <<tag_map_, stats_collectors_, max_tag_length_, stat_mutex_, call,
              resets, issued>>
config == <<lifeVars, stlVars, hashVars, sizeVars, statVars>>
poolVars == <<tasks, wpc, wframe, proc_it>>
consumerVars == <<cpc, cop, rval>>
historyVars == <<lastNext, lateCompletion, delivered, everCompleted, installed>>

(* ------------------------------ values ------------------------------- *)
Timestamps == 0..MaxTime
\* An unset frame of a VisualNFrame (a null shared_ptr).
NoFrame == 0
\* The end() iterator of a map, and "no timestamp".
End == -1
\* A null std::shared_ptr<VisualNFrame>.
Null == [ts |-> End, frames |-> <<>>]
NoTask == [id |-> 0, cam |-> 0, ts |-> End]

CameraIndices == 0..(numCameras - 1)

Abs(x) == IF x < 0 THEN -x ELSE x
Min(S) == CHOOSE x \in S : \A y \in S : x <= y
Max(S) == CHOOSE x \in S : \A y \in S : x >= y

(* ---------------------------- std::map ------------------------------- *)
\* begin(), lower_bound(), ++it and --it of an ordered map, as keys.
Begin(m) == IF DOMAIN m = {} THEN End ELSE Min(DOMAIN m)
LowerBound(m, t) ==
  IF \E k \in DOMAIN m : k >= t THEN Min({k \in DOMAIN m : k >= t}) ELSE End
Successor(m, it) ==
  IF \E k \in DOMAIN m : k > it THEN Min({k \in DOMAIN m : k > it}) ELSE End
Predecessor(m, it) ==
  IF it = End THEN Max(DOMAIN m) ELSE Max({k \in DOMAIN m : k < it})
\* insert() of a pair: a key that is already there keeps its element.
MapInsert(m, k, v) ==
  IF k \in DOMAIN m THEN m
  ELSE [x \in DOMAIN m \cup {k} |-> IF x = k THEN v ELSE m[x]]
MapErase(m, k) == [x \in DOMAIN m \ {k} |-> m[x]]
EmptyMap == [x \in {} |-> x]

(* --------------------------- VisualNFrame ---------------------------- *)
\* A new VisualNFrame of the output camera system: no frame set.
NewNFrame == [i \in CameraIndices |-> NoFrame]
\* Mutant: only the first camera's frame is looked at.
AllReceivedFirst(nframe) == nframe[0] # NoFrame

\* The all_received loop of work().
AllReceived(nframe) == \A i \in DOMAIN nframe : nframe[i] # NoFrame

(* ------------------------- VisualPipeline ---------------------------- *)
\* The frame the pipeline of a camera returns for an image: the timestamp
\* corrector shifts the stamp.
PipelineStamp(t) == t + TimestampShift


(* ------------------------ the bundle correlator ---------------------- *)
\* Mutant: the element after the first candidate is never compared.
NearestBefore(m, t) ==
  LET lb == LowerBound(m, t)
  IN  IF lb # Begin(m) THEN Predecessor(m, lb) ELSE lb

\* Mutant: the element before lower_bound(t) is never looked at.
NearestFromLowerBound(m, t) ==
  LET lb == LowerBound(m, t)
      it == IF lb = End THEN Predecessor(m, lb) ELSE lb
      nx == Successor(m, it)
  IN  IF nx # End /\ Abs(nx - t) < Abs(it - t) THEN nx ELSE it

\* Mutant: of two elements equally close the later one is taken.
NearestTieUpper(m, t) ==
  LET lb == LowerBound(m, t)
      it == IF lb # Begin(m) THEN Predecessor(m, lb) ELSE lb
      nx == Successor(m, it)
  IN  IF nx # End /\ Abs(nx - t) <= Abs(it - t) THEN nx ELSE it

\* work(), the search for the closest element of processing_: the element
\* before lower_bound(t) (or begin()), replaced by its successor when that
\* one is strictly closer. processing_ is not empty.
NearestNFrame(m, t) ==
  LET lb == LowerBound(m, t)
      it == IF lb # Begin(m) THEN Predecessor(m, lb) ELSE lb
      nx == Successor(m, it)
  IN  IF nx # End /\ Abs(nx - t) < Abs(it - t) THEN nx ELSE it

\* Mutant: a frame one past the tolerance still joins the NFrame.
CreateNewNFramesLoose(m, t, tol) ==
  \/ DOMAIN m = {}
  \/ Abs(NearestNFrame(m, t) - t) > tol + 1

\* Mutant: only a frame with the timestamp of the key joins an NFrame.
CreateNewNFramesUnlessEqual(m, t, tol) ==
  \/ DOMAIN m = {}
  \/ NearestNFrame(m, t) # t

\* Mutant: a frame exactly the tolerance away is split off.
CreateNewNFramesStrict(m, t, tol) ==
  \/ DOMAIN m = {}
  \/ Abs(NearestNFrame(m, t) - t) >= tol

\* Mutant: a new NFrame is made only when processing_ is empty.
CreateNewNFramesIfEmpty(m, t, tol) == DOMAIN m = {}

\* work(), create_new_nframes.
CreateNewNFrames(m, t, tol) ==
  \/ DOMAIN m = {}
  \/ Abs(NearestNFrame(m, t) - t) > tol

\* work(), the key proc_it points to once the NFrame has been found or made.
TargetKey(m, t, tol) ==
  IF CreateNewNFrames(m, t, tol) THEN t ELSE NearestNFrame(m, t)

\* work(), processing_ once the NFrame has been created if necessary.
WithNFrame(m, t, tol) ==
  IF CreateNewNFrames(m, t, tol) THEN MapInsert(m, t, NewNFrame) ELSE m

\* Mutant: a frame that is already set is kept.
SetFrameIfUnset(nframe, cam, id) ==
  IF nframe[cam] = NoFrame THEN [nframe EXCEPT ![cam] = id] ELSE nframe

\* VisualNFrame::setFrame.
SetFrame(nframe, cam, id) == [nframe EXCEPT ![cam] = id]

(* ------------------------- the helper classes ------------------------ *)
\* eraseIndicesFromVector has not been called, and there is no HashId.
StlHelpersUnused ==
  /\ test_vector = <<>>
  /\ indices_to_remove = <<>>
  /\ result_vector = <<>>
HashIdUnused ==
  /\ id_a = <<>>
  /\ id_b = <<>>
  /\ hex_as = <<>>
  /\ from_hex = <<>>
\* No size accessor is running.
NoSizeAsked == num_frames = [c \in Consumers |-> 0]

(* ----------------------------- Statistics ---------------------------- *)
\* The threads that call the statistics registry.
StatThreads == {1, 2}
\* The tags they use, in the order of the std::map.
TagOrder == <<"a", "bb">>
Tags == {TagOrder[i] : i \in DOMAIN TagOrder}
\* std::string tag; of GetTag: the empty string.
NoTag == ""
\* A thread that is in no call of Statistics.
NoCall == [pc |-> "idle", op |-> "none", tag |-> NoTag, handle |-> 0]
\* Statistics::Instance() before any call: no tag, no collector.
StatisticsUnused ==
  /\ tag_map_ = EmptyMap
  /\ stats_collectors_ = <<>>
  /\ max_tag_length_ = 0
  /\ stat_mutex_ = NoOwner
  /\ call = [t \in StatThreads |-> NoCall]
  /\ resets = 0
  /\ issued = {}

(* --------------------------- construction ---------------------------- *)
\* The camera objects there are, and a null shared_ptr.
CameraObjects == <<"camera0", "camera1">>
\* A shared_ptr: null, or pointing to an object.
NullPtr == <<>>
PointerTo(x) == <<x>>
Deref(p) == p[1]

\* createTestVisualNPipeline: a test NCamera of num_cameras cameras is both
\* the input and the output camera system, and camera i has a
\* NullVisualPipeline of its own.
TestArgs(num_cameras, num_threads, tolerance) ==
  LET ncamera == [i \in 1..num_cameras |-> CameraObjects[i]]
  IN  [num_threads |-> num_threads,
       pipelines |-> [i \in 1..num_cameras |->
                        PointerTo([input |-> ncamera[i], output |-> ncamera[i]])],
       input_camera_system |-> PointerTo(ncamera),
       output_camera_system |-> PointerTo(ncamera),
       timestamp_tolerance_ns |-> tolerance]

\* The arguments a caller may pass: camera systems of up to two cameras or
\* none at all, up to two pipelines, each perhaps null, each with any camera
\* as its input and output camera.
ArgCounts == {0, 1, 2}
ArgThreads == {0, 1, 2}
ArgTolerances == {-1, 0, 1}
Cameras == {CameraObjects[i] : i \in DOMAIN CameraObjects}
SeqsOf(S) == UNION {[1..n -> S] : n \in ArgCounts}
ArgCameraSystems == {NullPtr} \cup {PointerTo(n) : n \in SeqsOf(Cameras)}
ArgPipelines ==
  SeqsOf({NullPtr} \cup {PointerTo(p) : p \in [input : Cameras, output : Cameras]})
ConstructorArgs ==
  [num_threads : ArgThreads,
   pipelines : ArgPipelines,
   input_camera_system : ArgCameraSystems,
   output_camera_system : ArgCameraSystems,
   timestamp_tolerance_ns : ArgTolerances]

\* Mutant: the output cameras are not compared.
ConstructorChecksInputOnly(a) ==
  /\ a.input_camera_system # NullPtr
  /\ a.output_camera_system # NullPtr
  /\ Len(Deref(a.input_camera_system)) > 0
  /\ Len(Deref(a.input_camera_system)) = Len(Deref(a.output_camera_system))
  /\ Len(Deref(a.input_camera_system)) = Len(a.pipelines)
  /\ a.timestamp_tolerance_ns >= 0
  /\ \A i \in 1..Len(a.pipelines) :
       /\ a.pipelines[i] # NullPtr
       /\ Deref(a.input_camera_system)[i] = Deref(a.pipelines[i]).input
  /\ a.num_threads > 0

\* The CHECKs of the constructor, in their order: all of them pass.
ConstructorChecks(a) ==
  /\ a.input_camera_system # NullPtr
  /\ a.output_camera_system # NullPtr
  /\ Len(Deref(a.input_camera_system)) > 0
  /\ Len(Deref(a.input_camera_system)) = Len(Deref(a.output_camera_system))
  /\ Len(Deref(a.input_camera_system)) = Len(a.pipelines)
  /\ a.timestamp_tolerance_ns >= 0
  /\ \A i \in 1..Len(a.pipelines) :
       /\ a.pipelines[i] # NullPtr
       /\ Deref(a.input_camera_system)[i] = Deref(a.pipelines[i]).input
       /\ Deref(a.output_camera_system)[i] = Deref(a.pipelines[i]).output
  /\ a.num_threads > 0

(* ------------------------------ Init --------------------------------- *)
\* A pipeline made by createTestVisualNPipeline with as many threads as
\* there are workers.
Init ==
  /\ numCameras \in CameraCounts
  /\ timestamp_tolerance_ns_ \in Tolerances
  /\ args = TestArgs(numCameras, Cardinality(Workers), timestamp_tolerance_ns_)
  /\ thread_pool_ = "running"
  /\ destroyed = FALSE
  /\ submitted = <<>>
  /\ tasks = <<>>
  /\ wpc = [w \in Workers |-> "idle"]
  /\ wframe = [w \in Workers |-> NoTask]
  /\ proc_it = [w \in Workers |-> End]
  /\ mutex_ = NoOwner
  /\ processing_ = EmptyMap
  /\ completed_ = EmptyMap
  /\ cv_waiters = {}
  /\ cpc = [c \in Consumers |-> "idle"]
  /\ cop = [c \in Consumers |-> "none"]
  /\ rval = [c \in Consumers |-> Null]
  /\ crashed = FALSE
  /\ lastNext = End
  /\ lateCompletion = FALSE
  /\ delivered = {}
  /\ everCompleted = {}
  /\ installed = {}
  /\ StlHelpersUnused
  /\ HashIdUnused
  /\ NoSizeAsked
  /\ StatisticsUnused

\* Before the constructor is called: the caller has its arguments ready.
InitArgs ==
  /\ args \in ConstructorArgs
  /\ numCameras = 0
  /\ timestamp_tolerance_ns_ = 0
  /\ thread_pool_ = "null"
  /\ destroyed = FALSE
  /\ submitted = <<>>
  /\ tasks = <<>>
  /\ wpc = [w \in Workers |-> "idle"]
  /\ wframe = [w \in Workers |-> NoTask]
  /\ proc_it = [w \in Workers |-> End]
  /\ mutex_ = NoOwner
  /\ processing_ = EmptyMap
  /\ completed_ = EmptyMap
  /\ cv_waiters = {}
  /\ cpc = [c \in Consumers |-> "idle"]
  /\ cop = [c \in Consumers |-> "none"]
  /\ rval = [c \in Consumers |-> Null]
  /\ crashed = FALSE
  /\ lastNext = End
  /\ lateCompletion = FALSE
  /\ delivered = {}
  /\ everCompleted = {}
  /\ installed = {}
  /\ StlHelpersUnused
  /\ HashIdUnused
  /\ NoSizeAsked
  /\ StatisticsUnused

\* VisualNPipeline::VisualNPipeline: the members are initialised from the
\* arguments; a CHECK that fails aborts; when all pass the ThreadPool is made.
Construct ==
  /\ thread_pool_ = "null"
  /\ ~crashed
  /\ numCameras' = Len(args.pipelines)
  /\ timestamp_tolerance_ns_' = args.timestamp_tolerance_ns
  /\ IF ConstructorChecks(args)
     THEN thread_pool_' = "running" /\ UNCHANGED crashed
     ELSE crashed' = TRUE /\ UNCHANGED thread_pool_
  /\ UNCHANGED <<args, destroyed, submitted, poolVars, mutex_, processing_,
                 completed_, cv_waiters, consumerVars, historyVars, stlVars,
                 hashVars, sizeVars, statVars>>

SpecConstruct == InitArgs /\ [][Construct]_vars

(* --------------------------- processImage ---------------------------- *)
\* VisualNPipeline::processImage: the task is enqueued; nothing is checked.
ProcessImage(cam, t) ==
  /\ ~crashed
  /\ submitted' = Append(submitted, [cam |-> cam, ts |-> t])
  /\ tasks' = Append(tasks, Len(submitted) + 1)
  /\ UNCHANGED <<config, wpc, wframe, proc_it, mutex_, processing_, completed_,
                 cv_waiters, consumerVars, crashed, historyVars>>

\* A caller that keeps to the camera indices of the rig.
ProcessImageValid ==
  /\ Len(submitted) < MaxFrames
  /\ \E cam \in CameraIndices, t \in Timestamps : ProcessImage(cam, t)

\* A caller that also passes camera indices past the end.
ProcessImageAny ==
  /\ Len(submitted) < MaxFrames
  /\ \E cam \in 0..(numCameras + 1), t \in Timestamps : ProcessImage(cam, t)

(* ------------------------------ workers ------------------------------ *)
\* The threads the ThreadPool was made with.
PoolThreads == {w \in Workers : w <= args.num_threads}

\* ThreadPool: an idle worker of a running pool takes the task at the head of
\* the queue.
Dequeue(w) ==
  /\ ~crashed
  /\ w \in PoolThreads
  /\ thread_pool_ = "running"
  /\ wpc[w] = "idle"
  /\ tasks # <<>>
  /\ LET id == Head(tasks)
     IN  wframe' = [wframe EXCEPT ![w] =
                      [id |-> id, cam |-> submitted[id].cam, ts |-> submitted[id].ts]]
  /\ tasks' = Tail(tasks)
  /\ wpc' = [wpc EXCEPT ![w] = "process"]
  /\ UNCHANGED <<config, submitted, proc_it, mutex_, processing_, completed_,
                 cv_waiters, consumerVars, crashed, historyVars>>

\* work(): CHECK_LE(camera_index, pipelines_.size()) passes and the camera's
\* pipeline returns the frame, outside the lock.
WorkProcess(w) ==
  /\ ~crashed
  /\ wpc[w] = "process"
  /\ wframe[w].cam < numCameras
  /\ wframe' = [wframe EXCEPT ![w].ts = PipelineStamp(wframe[w].ts)]
  /\ wpc' = [wpc EXCEPT ![w] = "lock"]
  /\ UNCHANGED <<config, submitted, tasks, proc_it, mutex_, processing_,
                 completed_, cv_waiters, consumerVars, crashed, historyVars>>

\* Mutant: the pipeline is called with mutex_ held.
WorkProcessHangsLocked(w) ==
  /\ ~crashed
  /\ wpc[w] = "process"
  /\ wframe[w].cam < numCameras
  /\ mutex_ = NoOwner
  /\ mutex_' = w
  /\ wpc' = [wpc EXCEPT ![w] = "stuck"]
  /\ UNCHANGED <<config, submitted, tasks, wframe, proc_it, processing_,
                 completed_, cv_waiters, consumerVars, crashed, historyVars>>

\* work(): the camera's pipeline never returns from processImage. The call
\* is made before the lock is taken.
WorkProcessHangs(w) ==
  /\ ~crashed
  /\ wpc[w] = "process"
  /\ wframe[w].cam < numCameras
  /\ wpc' = [wpc EXCEPT ![w] = "stuck"]
  /\ UNCHANGED <<config, submitted, tasks, wframe, proc_it, mutex_, processing_,
                 completed_, cv_waiters, consumerVars, crashed, historyVars>>

\* work() with a camera index that is no index of pipelines_. An index past
\* the size fails CHECK_LE and aborts. An index equal to the size passes the
\* check and reads pipelines_ one past its end: the read may abort, or yield
\* a frame with any stamp.
WorkProcessPastEnd(w) ==
  /\ ~crashed
  /\ wpc[w] = "process"
  /\ wframe[w].cam >= numCameras
  /\ \/ /\ crashed' = TRUE
        /\ UNCHANGED <<wframe, wpc>>
     \/ /\ wframe[w].cam = numCameras
        /\ \E t \in Timestamps :
             wframe' = [wframe EXCEPT ![w].ts = PipelineStamp(t)]
        /\ wpc' = [wpc EXCEPT ![w] = "lock"]
        /\ UNCHANGED crashed
  /\ UNCHANGED <<config, submitted, tasks, proc_it, mutex_, processing_,
                 completed_, cv_waiters, consumerVars, historyVars>>

\* Mutant: the lock is taken whoever holds it.
AcquireHeld(t) == mutex_' = t

\* std::mutex::lock, for any thread.
Acquire(t) ==
  /\ mutex_ = NoOwner
  /\ mutex_' = t

\* work(): take the lock, find or create the NFrame, set the frame and
\* compute all_received.
WorkFind(w) ==
  /\ ~crashed
  /\ wpc[w] = "lock"
  /\ wframe[w].cam \in CameraIndices
  /\ Acquire(w)
  /\ LET t == wframe[w].ts
         tol == timestamp_tolerance_ns_
         key == TargetKey(processing_, t, tol)
         made == WithNFrame(processing_, t, tol)
         set == SetFrame(made[key], wframe[w].cam, wframe[w].id)
     IN  /\ processing_' = [made EXCEPT ![key] = set]
         /\ proc_it' = [proc_it EXCEPT ![w] = key]
         /\ wpc' = [wpc EXCEPT ![w] = IF AllReceived(set) THEN "insert" ELSE "unlock"]
         /\ everCompleted' =
              IF AllReceived(set)
              THEN everCompleted \cup {[ts |-> key, frames |-> set]}
              ELSE everCompleted
  /\ installed' = installed \cup {wframe[w].id}
  /\ UNCHANGED <<config, submitted, tasks, wframe, completed_, cv_waiters,
                 consumerVars, crashed, lastNext, lateCompletion, delivered>>

\* work() with a camera index that is no index of the NFrame: the NFrame is
\* created if necessary, then getFrameShared aborts.
WorkFindPastEnd(w) ==
  /\ ~crashed
  /\ wpc[w] = "lock"
  /\ wframe[w].cam \notin CameraIndices
  /\ Acquire(w)
  /\ processing_' = WithNFrame(processing_, wframe[w].ts, timestamp_tolerance_ns_)
  /\ crashed' = TRUE
  /\ UNCHANGED <<config, submitted, tasks, wframe, proc_it, wpc, completed_,
                 cv_waiters, consumerVars, historyVars>>

\* Mutant: the NFrame is inserted under the timestamp of its last frame.
WorkInsertRekeyed(w) ==
  /\ ~crashed
  /\ wpc[w] = "insert"
  /\ completed_' = MapInsert(completed_, wframe[w].ts, processing_[proc_it[w]])
  /\ wpc' = [wpc EXCEPT ![w] = "erase"]
  /\ lateCompletion' = (lateCompletion \/ (lastNext # End /\ proc_it[w] < lastNext))
  /\ UNCHANGED <<config, submitted, tasks, wframe, proc_it, mutex_, processing_,
                 cv_waiters, consumerVars, crashed, lastNext, delivered,
                 everCompleted, installed>>

\* work(): completed_.insert(*proc_it).
WorkInsert(w) ==
  /\ ~crashed
  /\ wpc[w] = "insert"
  /\ completed_' = MapInsert(completed_, proc_it[w], processing_[proc_it[w]])
  /\ wpc' = [wpc EXCEPT ![w] = "erase"]
  /\ lateCompletion' = (lateCompletion \/ (lastNext # End /\ proc_it[w] < lastNext))
  /\ UNCHANGED <<config, submitted, tasks, wframe, proc_it, mutex_, processing_,
                 cv_waiters, consumerVars, crashed, lastNext, delivered,
                 everCompleted, installed>>

\* Mutant: the notification is lost.
NotifyNone(waiting) == waiting

\* std::condition_variable::notify_all: the threads still waiting afterwards.
NotifyAll(waiting) == {}

\* work(): processing_.erase(proc_it); cv_new_nframe_.notify_all(); the lock
\* goes out of scope and the task ends.
WorkErase(w) ==
  /\ ~crashed
  /\ wpc[w] = "erase"
  /\ mutex_ = w
  /\ processing_' = MapErase(processing_, proc_it[w])
  /\ cv_waiters' = NotifyAll(cv_waiters)
  /\ cpc' = [c \in Consumers |->
               IF c \in cv_waiters \ cv_waiters' THEN "woken" ELSE cpc[c]]
  /\ mutex_' = NoOwner
  /\ wpc' = [wpc EXCEPT ![w] = "idle"]
  /\ wframe' = [wframe EXCEPT ![w] = NoTask]
  /\ proc_it' = [proc_it EXCEPT ![w] = End]
  /\ UNCHANGED <<config, submitted, tasks, completed_, cop, rval, crashed,
                 historyVars>>

\* work(), not all frames received: the lock goes out of scope and the task
\* ends.
WorkUnlock(w) ==
  /\ ~crashed
  /\ wpc[w] = "unlock"
  /\ mutex_ = w
  /\ mutex_' = NoOwner
  /\ wpc' = [wpc EXCEPT ![w] = "idle"]
  /\ wframe' = [wframe EXCEPT ![w] = NoTask]
  /\ proc_it' = [proc_it EXCEPT ![w] = End]
  /\ UNCHANGED <<config, submitted, tasks, processing_, completed_, cv_waiters,
                 consumerVars, crashed, historyVars>>

(* ----------------------------- consumers ---------------------------- *)
\* Mutant: the newest frame is taken for the oldest.
OldestFromBack(m) == [ts |-> Max(DOMAIN m), frames |-> m[Max(DOMAIN m)]]

\* The oldest frame of a map that is not empty: completed_.begin().
Oldest(m) == [ts |-> Begin(m), frames |-> m[Begin(m)]]
\* The latest frame of a map that is not empty: completed_.rbegin().
Latest(m) == [ts |-> Max(DOMAIN m), frames |-> m[Max(DOMAIN m)]]
\* Mutant: the whole map is dropped with the frame taken.
EraseAll(m, nframe) == EmptyMap

\* completed_ once erase(it) has removed the frame `it` points to.
EraseTaken(m, nframe) == MapErase(m, nframe.ts)
Handed(c, nframe) == [by |-> c, nframe |-> nframe]

\* getNext(): take the lock; the oldest frame is erased and returned, or null.
GetNext(c) ==
  /\ ~crashed
  /\ cpc[c] = "idle"
  /\ Acquire(c)
  /\ cop' = [cop EXCEPT ![c] = "getNext"]
  /\ IF DOMAIN completed_ # {}
     THEN /\ rval' = [rval EXCEPT ![c] = Oldest(completed_)]
          /\ completed_' = EraseTaken(completed_, Oldest(completed_))
          /\ lastNext' = Oldest(completed_).ts
          /\ lateCompletion' = FALSE
          /\ delivered' = delivered \cup {Handed(c, Oldest(completed_))}
     ELSE /\ rval' = [rval EXCEPT ![c] = Null]
          /\ UNCHANGED <<completed_, lastNext, lateCompletion, delivered>>
  /\ cpc' = [cpc EXCEPT ![c] = "ret"]
  /\ UNCHANGED <<config, submitted, poolVars, processing_, cv_waiters, crashed,
                 everCompleted, installed>>

\* getNextBlocking(), with the mutex held: while completed_ is empty, wait
\* (the wait gives up the mutex and blocks); otherwise the oldest frame is
\* erased and returned.
WaitOrTake(c) ==
  /\ IF DOMAIN completed_ = {}
     THEN /\ cv_waiters' = cv_waiters \cup {c}
          /\ mutex_' = NoOwner
          /\ cpc' = [cpc EXCEPT ![c] = "wait"]
          /\ UNCHANGED <<rval, completed_, delivered>>
     ELSE /\ rval' = [rval EXCEPT ![c] = Oldest(completed_)]
          /\ completed_' = EraseTaken(completed_, Oldest(completed_))
          /\ delivered' = delivered \cup {Handed(c, Oldest(completed_))}
          /\ mutex_' = c
          /\ cpc' = [cpc EXCEPT ![c] = "ret"]
          /\ UNCHANGED cv_waiters
  /\ cop' = [cop EXCEPT ![c] = "getNextBlocking"]
  /\ UNCHANGED <<config, submitted, poolVars, processing_, crashed, lastNext,
                 lateCompletion, everCompleted, installed>>

\* getNextBlocking(): take the lock and test completed_.
GetNextBlocking(c) ==
  /\ ~crashed
  /\ cpc[c] = "idle"
  /\ mutex_ = NoOwner
  /\ WaitOrTake(c)

\* cv_new_nframe_.wait returns once the woken thread has the mutex again, and
\* the loop tests completed_ again.
Reacquire(c) ==
  /\ ~crashed
  /\ cpc[c] = "woken"
  /\ mutex_ = NoOwner
  /\ WaitOrTake(c)

\* cv_new_nframe_.wait may wake without a notification.
SpuriousWakeup(c) ==
  /\ ~crashed
  /\ cpc[c] = "wait"
  /\ c \in cv_waiters
  /\ cv_waiters' = cv_waiters \ {c}
  /\ cpc' = [cpc EXCEPT ![c] = "woken"]
  /\ UNCHANGED <<config, submitted, poolVars, mutex_, processing_, completed_,
                 cop, rval, crashed, historyVars>>

\* getLatestAndClear(), the loop that erases processing_ from begin() while
\* the key is <= timestamp.
\* Mutant: an in-progress frame with the returned timestamp is kept.
ClearStrictlyOlder(m, timestamp) == [k \in {x \in DOMAIN m : x >= timestamp} |-> m[k]]

RECURSIVE ClearOlder(_, _)
ClearOlder(m, timestamp) ==
  IF Begin(m) # End /\ Begin(m) <= timestamp
  THEN ClearOlder(MapErase(m, Begin(m)), timestamp)
  ELSE m

\* getLatestAndClear(): take the lock; the latest frame is returned,
\* completed_ cleared and the older part of processing_ erased; or null.
GetLatestAndClear(c) ==
  /\ ~crashed
  /\ cpc[c] = "idle"
  /\ Acquire(c)
  /\ cop' = [cop EXCEPT ![c] = "getLatestAndClear"]
  /\ IF DOMAIN completed_ # {}
     THEN /\ rval' = [rval EXCEPT ![c] = Latest(completed_)]
          /\ completed_' = EmptyMap
          /\ processing_' = ClearOlder(processing_, Latest(completed_).ts)
          /\ delivered' = delivered \cup {Handed(c, Latest(completed_))}
     ELSE /\ rval' = [rval EXCEPT ![c] = Null]
          /\ UNCHANGED <<completed_, processing_, delivered>>
  /\ cpc' = [cpc EXCEPT ![c] = "ret"]
  /\ UNCHANGED <<config, submitted, poolVars, cv_waiters, crashed, lastNext,
                 lateCompletion, everCompleted, installed>>

\* getNumFramesComplete(): take the lock; the size of completed_ is returned.
GetNumFramesComplete(c) ==
  /\ ~crashed
  /\ cpc[c] = "idle"
  /\ Acquire(c)
  /\ cop' = [cop EXCEPT ![c] = "getNumFramesComplete"]
  /\ num_frames' = [num_frames EXCEPT ![c] = Cardinality(DOMAIN completed_)]
  /\ cpc' = [cpc EXCEPT ![c] = "ret"]
  /\ UNCHANGED <<lifeVars, stlVars, hashVars, statVars, submitted, poolVars, processing_,
                 completed_, cv_waiters, rval, crashed, historyVars>>

\* getNumFramesProcessing(): take the lock; the size of processing_ is
\* returned.
GetNumFramesProcessing(c) ==
  /\ ~crashed
  /\ cpc[c] = "idle"
  /\ Acquire(c)
  /\ cop' = [cop EXCEPT ![c] = "getNumFramesProcessing"]
  /\ num_frames' = [num_frames EXCEPT ![c] = Cardinality(DOMAIN processing_)]
  /\ cpc' = [cpc EXCEPT ![c] = "ret"]
  /\ UNCHANGED <<lifeVars, stlVars, hashVars, statVars, submitted, poolVars, processing_,
                 completed_, cv_waiters, rval, crashed, historyVars>>

\* The accessor returns: its lock goes out of scope.
Return(c) ==
  /\ ~crashed
  /\ cpc[c] = "ret"
  /\ mutex_ = c
  /\ mutex_' = NoOwner
  /\ cpc' = [cpc EXCEPT ![c] = "idle"]
  /\ cop' = [cop EXCEPT ![c] = "none"]
  /\ rval' = [rval EXCEPT ![c] = Null]
  /\ num_frames' = [num_frames EXCEPT ![c] = 0]
  /\ UNCHANGED <<lifeVars, stlVars, hashVars, statVars, submitted, poolVars, processing_,
                 completed_, cv_waiters, crashed, historyVars>>

(* --------------------------- specifications -------------------------- *)
\* The steps of the worker threads on tasks with a camera index of the rig.
Work ==
  \E w \in Workers :
    \/ Dequeue(w)
    \/ WorkProcess(w)
    \/ WorkFind(w)
    \/ WorkInsert(w)
    \/ WorkErase(w)
    \/ WorkUnlock(w)

\* One consumer thread using every accessor.
Consume ==
  \E c \in OneConsumer :
    \/ GetNext(c)
    \/ GetNextBlocking(c)
    \/ Reacquire(c)
    \/ SpuriousWakeup(c)
    \/ GetLatestAndClear(c)
    \/ Return(c)

Next ==
  \/ ProcessImageValid
  \/ Work
  \/ Consume

Spec == Init /\ [][Next]_vars

\* The steps of the worker threads when the caller also passes camera
\* indices past the end.
WorkAny ==
  \E w \in Workers :
    \/ Dequeue(w)
    \/ WorkProcess(w)
    \/ WorkProcessPastEnd(w)
    \/ WorkFind(w)
    \/ WorkFindPastEnd(w)
    \/ WorkInsert(w)
    \/ WorkErase(w)
    \/ WorkUnlock(w)

NextAnyIndex ==
  \/ ProcessImageAny
  \/ WorkAny

SpecAnyIndex == Init /\ [][NextAnyIndex]_vars

\* The pipeline with no consumer pulling.
NextPipeline ==
  \/ ProcessImageValid
  \/ Work

SpecPipeline == Init /\ [][NextPipeline]_vars

(* -------------------------- timestamp groups ------------------------- *)
\* MaxGroups groups of images, one image per camera in each; the stamps of a
\* group lie within the tolerance, those of two groups further apart.
MaxGroups == 2
Stride == 2 * timestamp_tolerance_ns_ + 1
GroupOf(t) == t \div Stride

ProcessImageGroup ==
  \E cam \in CameraIndices, g \in 0..(MaxGroups - 1), off \in 0..timestamp_tolerance_ns_ :
    /\ \A i \in 1..Len(submitted) :
         ~(submitted[i].cam = cam /\ GroupOf(submitted[i].ts) = g)
    /\ ProcessImage(cam, g * Stride + off)

NextGroups ==
  \/ ProcessImageGroup
  \/ Work

\* Every worker thread that can take a step gets to take it.
WorkerStep(w) ==
  \/ Dequeue(w)
  \/ WorkProcess(w)
  \/ WorkFind(w)
  \/ WorkInsert(w)
  \/ WorkErase(w)
  \/ WorkUnlock(w)

WorkersFair == \A w \in Workers : WF_vars(WorkerStep(w))

SpecGroups == Init /\ [][NextGroups]_vars

(* ------------------------ blocking consumers ------------------------- *)
\* The consumers that have been handed a bundle.
Served == {d.by : d \in delivered}

\* Each consumer calls getNextBlocking() once.
Block ==
  \E c \in Consumers :
    \/ c \notin Served /\ GetNextBlocking(c)
    \/ Reacquire(c)
    \/ SpuriousWakeup(c)
    \/ Return(c)

\* The caller hands in at most MaxBlockingFrames images.
MaxBlockingFrames == 2
ProcessImageFew ==
  /\ Len(submitted) < MaxBlockingFrames
  /\ \E cam \in CameraIndices, t \in Timestamps : ProcessImage(cam, t)

NextBlocking ==
  \/ ProcessImageFew
  \/ Work
  \/ Block

\* A woken consumer gets the mutex when it is free again and again, and an
\* accessor that has its result returns. Nothing makes a wait wake without a
\* notification.
ConsumersFair ==
  \A c \in Consumers :
    /\ SF_vars(Reacquire(c))
    /\ WF_vars(Return(c))

FairSpecBlocking == Init /\ [][NextBlocking]_vars /\ WorkersFair /\ ConsumersFair

\* The consumers block in getNextBlocking() before the first image is handed
\* in.
BlockFirst ==
  \E c \in Consumers :
    \/ submitted = <<>> /\ c \notin Served /\ GetNextBlocking(c)
    \/ Reacquire(c)
    \/ SpuriousWakeup(c)
    \/ Return(c)

NextBlockedFirst ==
  \/ ProcessImageFew
  \/ Work
  \/ BlockFirst

FairSpecBlockedFirst ==
  Init /\ [][NextBlockedFirst]_vars /\ WorkersFair /\ ConsumersFair

(* ------------------------- a pipeline that hangs -------------------- *)
\* A pipeline made by createTestVisualNPipeline with any number of threads.
InitPool ==
  /\ numCameras \in CameraCounts
  /\ timestamp_tolerance_ns_ \in Tolerances
  /\ \E n \in 1..Cardinality(Workers) :
       args = TestArgs(numCameras, n, timestamp_tolerance_ns_)
  /\ thread_pool_ = "running"
  /\ destroyed = FALSE
  /\ submitted = <<>>
  /\ tasks = <<>>
  /\ wpc = [w \in Workers |-> "idle"]
  /\ wframe = [w \in Workers |-> NoTask]
  /\ proc_it = [w \in Workers |-> End]
  /\ mutex_ = NoOwner
  /\ processing_ = EmptyMap
  /\ completed_ = EmptyMap
  /\ cv_waiters = {}
  /\ cpc = [c \in Consumers |-> "idle"]
  /\ cop = [c \in Consumers |-> "none"]
  /\ rval = [c \in Consumers |-> Null]
  /\ crashed = FALSE
  /\ lastNext = End
  /\ lateCompletion = FALSE
  /\ delivered = {}
  /\ everCompleted = {}
  /\ installed = {}
  /\ StlHelpersUnused
  /\ HashIdUnused
  /\ NoSizeAsked
  /\ StatisticsUnused

\* The pipelines may hang.
Hang == \E w \in Workers : WorkProcessHangs(w)

\* One consumer polling with getNext().
Poll ==
  \E c \in OneConsumer :
    \/ GetNext(c)
    \/ Return(c)

NextStuck ==
  \/ ProcessImageFew
  \/ Work
  \/ Hang
  \/ Poll

\* A worker that can take a step again and again takes it, and an accessor
\* that has its result returns.
FairSpecStuck ==
  /\ InitPool
  /\ [][NextStuck]_vars
  /\ \A w \in Workers : SF_vars(WorkerStep(w))
  /\ \A c \in OneConsumer : WF_vars(Return(c))

(* --------------------- waitForAllWorkToComplete ---------------------- *)
\* Mutant: the tasks still executing are not waited for.
QueueEmptyIgnoringActive == tasks = <<>>

\* ThreadPool::waitForEmptyQueue's condition: no task is queued and no thread
\* of the pool is executing one.
QueueEmpty ==
  /\ tasks = <<>>
  /\ \A w \in PoolThreads : wpc[w] = "idle"

\* waitForAllWorkToComplete(): the caller enters thread_pool_->waitForEmptyQueue().
WaitForAllWorkToComplete(c) ==
  /\ ~crashed
  /\ cpc[c] \in {"idle", "returned"}
  /\ cpc' = [cpc EXCEPT ![c] = "waitForEmptyQueue"]
  /\ cop' = [cop EXCEPT ![c] = "waitForAllWorkToComplete"]
  /\ UNCHANGED <<config, submitted, poolVars, mutex_, processing_, completed_,
                 cv_waiters, rval, crashed, historyVars>>

\* waitForAllWorkToComplete() returns once waitForEmptyQueue() does. mutex_
\* is not taken.
WaitReturns(c) ==
  /\ ~crashed
  /\ cpc[c] = "waitForEmptyQueue"
  /\ QueueEmpty
  /\ cpc' = [cpc EXCEPT ![c] = "returned"]
  /\ cop' = [cop EXCEPT ![c] = "none"]
  /\ UNCHANGED <<config, submitted, poolVars, mutex_, processing_, completed_,
                 cv_waiters, rval, crashed, historyVars>>

\* The caller of processImage waits for the work, now and then.
Producers == Consumers \ OneConsumer
Wait ==
  \E c \in Producers :
    \/ WaitForAllWorkToComplete(c)
    \/ WaitReturns(c)

NextWait ==
  \/ ProcessImageValid
  \/ Work
  \/ Wait
  \/ Poll

SpecWait == Init /\ [][NextWait]_vars

(* ----------------------------- teardown ----------------------------- *)
\* ~VisualNPipeline(): thread_pool_->stop() is entered: from now on no thread
\* of the pool starts a task.
Stop ==
  /\ ~crashed
  /\ thread_pool_ = "running"
  /\ thread_pool_' = "stopping"
  /\ UNCHANGED <<numCameras, timestamp_tolerance_ns_, args, destroyed, submitted,
                 stlVars, hashVars, sizeVars, statVars,
                 poolVars, mutex_, processing_, completed_, cv_waiters,
                 consumerVars, crashed, historyVars>>

\* ThreadPool::stop() joins the threads: it returns once each has finished
\* the task it was executing.
Join ==
  /\ ~crashed
  /\ thread_pool_ = "stopping"
  /\ \A w \in PoolThreads : wpc[w] = "idle"
  /\ thread_pool_' = "stopped"
  /\ UNCHANGED <<numCameras, timestamp_tolerance_ns_, args, destroyed, submitted,
                 stlVars, hashVars, sizeVars, statVars,
                 poolVars, mutex_, processing_, completed_, cv_waiters,
                 consumerVars, crashed, historyVars>>

\* Mutant: the destructor does not stop the pool before the members go.
ReleaseWithoutStop ==
  /\ ~crashed
  /\ ~destroyed
  /\ destroyed' = TRUE
  /\ processing_' = EmptyMap
  /\ completed_' = EmptyMap
  /\ UNCHANGED <<numCameras, timestamp_tolerance_ns_, args, thread_pool_, submitted,
                 stlVars, hashVars, sizeVars, statVars,
                 poolVars, mutex_, cv_waiters, consumerVars, crashed, historyVars>>

\* ~VisualNPipeline(), after its body: the members are released, processing_
\* and completed_ among them.
Release ==
  /\ ~crashed
  /\ ~destroyed
  /\ thread_pool_ = "stopped"
  /\ destroyed' = TRUE
  /\ processing_' = EmptyMap
  /\ completed_' = EmptyMap
  /\ UNCHANGED <<numCameras, timestamp_tolerance_ns_, args, thread_pool_, submitted,
                 stlVars, hashVars, sizeVars, statVars,
                 poolVars, mutex_, cv_waiters, consumerVars, crashed, historyVars>>

\* processImage is called on a pipeline that has not been torn down.
ProcessImageAlive ==
  /\ thread_pool_ = "running"
  /\ ProcessImageValid

NextTeardown ==
  \/ ProcessImageAlive
  \/ Work
  \/ Stop
  \/ Join
  \/ Release

SpecTeardown == Init /\ [][NextTeardown]_vars

(* ------------------------ no pipeline at all ------------------------- *)
\* The state of a program that has constructed no pipeline.
NoPipeline ==
  /\ args = TestArgs(1, 1, 0)
  /\ numCameras = 0
  /\ timestamp_tolerance_ns_ = 0
  /\ thread_pool_ = "null"
  /\ destroyed = FALSE
  /\ submitted = <<>>
  /\ tasks = <<>>
  /\ wpc = [w \in Workers |-> "idle"]
  /\ wframe = [w \in Workers |-> NoTask]
  /\ proc_it = [w \in Workers |-> End]
  /\ mutex_ = NoOwner
  /\ processing_ = EmptyMap
  /\ completed_ = EmptyMap
  /\ cv_waiters = {}
  /\ cpc = [c \in Consumers |-> "idle"]
  /\ cop = [c \in Consumers |-> "none"]
  /\ rval = [c \in Consumers |-> Null]
  /\ crashed = FALSE
  /\ lastNext = End
  /\ lateCompletion = FALSE
  /\ delivered = {}
  /\ everCompleted = {}
  /\ installed = {}
pipelineVars ==
  <<lifeVars, submitted, poolVars, mutex_, processing_, completed_, cv_waiters,
    consumerVars, crashed, historyVars>>

(* ----------------------- eraseIndicesFromVector ---------------------- *)
\* The vectors tried: every vector of up to MaxVectorLen elements, and the
\* vector and the indices of TEST(StlHelpers, erase_indices).
MaxVectorLen == 4
VectorElements == {0, 1}
TestVector == <<0, 1, 2, 3, 4, 5>>
TestIndices == <<2, 4>>
Vectors ==
  {TestVector} \cup UNION {[1..n -> VectorElements] : n \in 0..MaxVectorLen}
\* The lists of distinct valid indices of a vector of n elements, in any
\* order. Indices count from 0.
IndexLists(n) ==
  {l \in UNION {[1..k -> 0..(n - 1)] : k \in 0..n} :
     \A i, j \in DOMAIN l : i # j => l[i] # l[j]}

\* Mutant: only the first index is marked.
MarkErasedFirst(n, indices) ==
  [i \in 0..(n - 1) |-> indices # <<>> /\ indices[1] = i]

\* The indices are marked in a vector of n flags, one after the other.
RECURSIVE MarkErased(_, _)
MarkErased(n, indices) ==
  IF indices = <<>> THEN [i \in 0..(n - 1) |-> FALSE]
  ELSE [MarkErased(n, Tail(indices)) EXCEPT ![Head(indices)] = TRUE]

\* The elements of vec from position i on whose flag is not set are copied,
\* in order.
RECURSIVE CopyUnmarked(_, _, _)
CopyUnmarked(vec, erase_index, i) ==
  IF i > Len(vec) THEN <<>>
  ELSE IF erase_index[i - 1]
       THEN CopyUnmarked(vec, erase_index, i + 1)
       ELSE <<vec[i]>> \o CopyUnmarked(vec, erase_index, i + 1)

\* aslam::common::eraseIndicesFromVector(vec, indices_to_erase).
eraseIndicesFromVector(vec, indices_to_erase) ==
  CopyUnmarked(vec, MarkErased(Len(vec), indices_to_erase), 1)

InitStlHelpers ==
  /\ NoPipeline
  /\ HashIdUnused
  /\ NoSizeAsked
  /\ StatisticsUnused
  /\ test_vector \in Vectors
  /\ indices_to_remove \in IndexLists(Len(test_vector))
  /\ result_vector = NullPtr

\* TEST(StlHelpers, erase_indices): the call.
EraseIndices ==
  /\ result_vector = NullPtr
  /\ result_vector' = PointerTo(eraseIndicesFromVector(test_vector, indices_to_remove))
  /\ UNCHANGED <<test_vector, indices_to_remove, hashVars, sizeVars, statVars, pipelineVars>>

SpecStlHelpers == InitStlHelpers /\ [][EraseIndices]_vars

(* ------------------------------ HashId ------------------------------ *)
\* A HashId is HashBytes bytes; its hex string has two characters per byte.
HashBytes == 16
kHexConversion ==
  <<"0", "1", "2", "3", "4", "5", "6", "7", "8", "9", "a", "b", "c", "d", "e", "f">>
\* HashId(): every byte is 0.
DefaultHashId == [i \in 1..HashBytes |-> 0]
\* isValid(): some byte is not 0.
isValid(id) == \E i \in DOMAIN id : id[i] # 0

\* The ids randomize() is tried with: one byte set, at any place, to a value
\* with a high nibble, a low nibble or both.
ByteSamples == {1, 15, 16, 171, 255}
RandomHashIds ==
  {[DefaultHashId EXCEPT ![i] = v] : i \in 1..HashBytes, v \in ByteSamples}

\* Mutant: the low nibble of a byte is written first.
hexStringLowFirst(id) ==
  [k \in 1..(2 * Len(id)) |->
     LET byte == id[(k + 1) \div 2]
     IN  IF k % 2 = 1 THEN kHexConversion[(byte % 16) + 1]
                      ELSE kHexConversion[(byte \div 16) + 1]]

\* hexString(): for each byte the character of its high nibble, then that of
\* its low nibble.
hexString(id) ==
  [k \in 1..(2 * Len(id)) |->
     LET byte == id[(k + 1) \div 2]
     IN  IF k % 2 = 1 THEN kHexConversion[(byte \div 16) + 1]
                      ELSE kHexConversion[(byte % 16) + 1]]

\* The value of a hexadecimal character, or -1 when it is none.
HexValue(ch) ==
  IF \E v \in DOMAIN kHexConversion : kHexConversion[v] = ch
  THEN (CHOOSE v \in DOMAIN kHexConversion : kHexConversion[v] = ch) - 1
  ELSE -1
\* fromHexString(): the string must have two characters per byte, and each
\* pair must read as a hexadecimal number, which becomes the byte.
fromHexStringOk(str) ==
  /\ Len(str) = 2 * HashBytes
  /\ \A k \in DOMAIN str : HexValue(str[k]) >= 0
fromHexStringValue(str) ==
  [i \in 1..HashBytes |-> 16 * HexValue(str[2 * i - 1]) + HexValue(str[2 * i])]

\* HashId a, b.
InitHashId ==
  /\ NoPipeline
  /\ StlHelpersUnused
  /\ NoSizeAsked
  /\ StatisticsUnused
  /\ id_a = DefaultHashId
  /\ id_b = DefaultHashId
  /\ hex_as = NullPtr
  /\ from_hex = NullPtr

\* a.randomize().
Randomize ==
  /\ hex_as = NullPtr
  /\ id_a' \in RandomHashIds
  /\ UNCHANGED <<id_b, hex_as, from_hex, stlVars, sizeVars, statVars, pipelineVars>>

\* std::string as(a.hexString()).
HexString ==
  /\ hex_as = NullPtr
  /\ hex_as' = PointerTo(hexString(id_a))
  /\ UNCHANGED <<id_a, id_b, from_hex, stlVars, sizeVars, statVars, pipelineVars>>

\* b.fromHexString(as).
FromHexString ==
  /\ hex_as # NullPtr
  /\ from_hex = NullPtr
  /\ from_hex' = PointerTo(fromHexStringOk(Deref(hex_as)))
  /\ id_b' = IF fromHexStringOk(Deref(hex_as))
             THEN fromHexStringValue(Deref(hex_as))
             ELSE id_b
  /\ UNCHANGED <<id_a, hex_as, stlVars, sizeVars, statVars, pipelineVars>>

NextHashId ==
  \/ Randomize
  \/ HexString
  \/ FromHexString

SpecHashId == InitHashId /\ [][NextHashId]_vars

(* ------------------- one frame and many open bundles ---------------- *)
\* A pipeline of two cameras that has filed frames of camera 0 at some
\* timestamps, each further than the tolerance from the others, so that each
\* has a bundle of its own in processing_, and is handed one more frame.
MaxMatchTime == 5
MatchTimes == 0..MaxMatchTime
RECURSIVE Ascending(_)
Ascending(S) == IF S = {} THEN <<>> ELSE <<Min(S)>> \o Ascending(S \ {Min(S)})
Separated(S, tol) == \A x, y \in S : x # y => Abs(x - y) > tol

InitMatch ==
  /\ numCameras = Max(CameraCounts)
  /\ timestamp_tolerance_ns_ \in Tolerances
  /\ args = TestArgs(numCameras, Cardinality(Workers), timestamp_tolerance_ns_)
  /\ thread_pool_ = "running"
  /\ destroyed = FALSE
  /\ \E times \in SUBSET MatchTimes, cam \in 0..(Max(CameraCounts) - 1), t \in MatchTimes :
       LET before == Ascending(times)
           n == Len(before)
       IN  /\ Separated(times, timestamp_tolerance_ns_)
           /\ submitted = [i \in 1..(n + 1) |->
                             IF i <= n THEN [cam |-> 0, ts |-> before[i]]
                                       ELSE [cam |-> cam, ts |-> t]]
           /\ tasks = <<n + 1>>
           /\ processing_ = [k \in {PipelineStamp(x) : x \in times} |->
                               [c \in 0..(Max(CameraCounts) - 1) |->
                                  IF c = 0
                                  THEN CHOOSE i \in 1..n : PipelineStamp(before[i]) = k
                                  ELSE NoFrame]]
           /\ installed = 1..n
  /\ wpc = [w \in Workers |-> "idle"]
  /\ wframe = [w \in Workers |-> NoTask]
  /\ proc_it = [w \in Workers |-> End]
  /\ mutex_ = NoOwner
  /\ completed_ = EmptyMap
  /\ cv_waiters = {}
  /\ cpc = [c \in Consumers |-> "idle"]
  /\ cop = [c \in Consumers |-> "none"]
  /\ rval = [c \in Consumers |-> Null]
  /\ crashed = FALSE
  /\ lastNext = End
  /\ lateCompletion = FALSE
  /\ delivered = {}
  /\ everCompleted = {}
  /\ StlHelpersUnused
  /\ HashIdUnused
  /\ NoSizeAsked
  /\ StatisticsUnused

SpecMatch == InitMatch /\ [][Work]_vars

(* ------------------------- common predicates ------------------------- *)
\* Every task handed to the pool has run to its end.
AllWorkDone ==
  /\ tasks = <<>>
  /\ \A w \in Workers : wpc[w] = "idle"

FrameIds == 1..Len(submitted)
\* The timestamp of the frame the pipeline makes of a submitted image.
StampOf(id) == PipelineStamp(submitted[id].ts)
Near(i, j) == Abs(StampOf(i) - StampOf(j)) <= timestamp_tolerance_ns_
\* The frame ids set in an NFrame.
FramesOf(nframe) == {nframe[i] : i \in DOMAIN nframe} \ {NoFrame}

(* -------------------------------- C1 --------------------------------- *)
\* processImage has been called exactly once per camera, with timestamps
\* pairwise within the tolerance.
OncePerCamera ==
  /\ Len(submitted) = numCameras
  /\ \A i, j \in FrameIds : i # j => submitted[i].cam # submitted[j].cam
  /\ \A i, j \in FrameIds : Near(i, j)

\* C1: from an empty pipeline, once processImage has been called exactly once
\* per camera with timestamps pairwise within the tolerance and all tasks
\* have run, in whatever order, completed_ holds exactly one bundle, all of
\* its frames are set (slot c holds the frame of camera c), and processing_
\* is empty.
C1_OneBundlePerGroup ==
  (OncePerCamera /\ AllWorkDone) =>
    /\ Cardinality(DOMAIN completed_) = 1
    /\ \A k \in DOMAIN completed_ :
         /\ AllReceived(completed_[k])
         /\ FramesOf(completed_[k]) = FrameIds
         /\ \A c \in CameraIndices : submitted[completed_[k][c]].cam = c
    /\ DOMAIN processing_ = {}

\* Two cameras, stamps that differ by the tolerance, the later one first.
C1_Witness ==
  /\ numCameras = 2
  /\ OncePerCamera
  /\ AllWorkDone
  /\ StampOf(1) = StampOf(2) + 1
  /\ Cardinality(DOMAIN completed_) = 1

(* -------------------------------- C3 --------------------------------- *)
\* Worker w executes completed_.insert(*proc_it) in this step.
InsertStep(w) == wpc[w] = "insert" /\ wpc'[w] = "erase"
\* Consumer c removes frames from completed_ in this step (getNext,
\* getNextBlocking or getLatestAndClear take the frame they return).
TakeStep(c) == cpc[c] # "ret" /\ cpc'[c] = "ret"

\* C3: no completed bundle is dropped. When a worker moves the bundle whose
\* last frame it has set to completed_, the bundle is in completed_
\* afterwards and completed_ has grown by exactly one, whatever completed_
\* held; and a bundle leaves completed_ only in a step of getNext,
\* getNextBlocking or getLatestAndClear.
C3_NoCompletedBundleDropped ==
  [][ /\ \A w \in Workers : InsertStep(w) =>
           /\ proc_it[w] \in DOMAIN completed_'
           /\ completed_'[proc_it[w]] = processing_[proc_it[w]]
           /\ Cardinality(DOMAIN completed_') = Cardinality(DOMAIN completed_) + 1
      /\ (\E k \in DOMAIN completed_ : k \notin DOMAIN completed_')
           => \E c \in Consumers : TakeStep(c)
    ]_vars

(* -------------------------------- C4 --------------------------------- *)
\* Consumer c's getNext() takes a bundle in this step.
GetNextTakes(c) ==
  /\ cpc[c] = "idle"
  /\ cpc'[c] = "ret"
  /\ cop'[c] = "getNext"
  /\ rval'[c] # Null

\* C4 as claimed: the reference timestamps of the bundles successive
\* getNext() calls return never decrease, whatever arrives and completes
\* in between.
C4_NonDecreasing ==
  [][ \A c \in Consumers :
        (GetNextTakes(c) /\ lastNext # End) => rval'[c].ts >= lastNext ]_vars

\* C4 as amended: getNext() returns a bundle older than the one the previous
\* getNext() returned only if a bundle older than that one was moved to
\* completed_ after the previous call; otherwise the timestamps do not
\* decrease.
C4_NonDecreasingUnlessLate ==
  [][ \A c \in Consumers :
        (GetNextTakes(c) /\ lastNext # End /\ ~lateCompletion)
          => rval'[c].ts >= lastNext ]_vars

\* getNext() has returned a bundle, no older bundle has completed since, and
\* the next call has a bundle to return.
C4_Witness ==
  /\ lastNext # End
  /\ ~lateCompletion
  /\ DOMAIN completed_ # {}
  /\ \E c \in OneConsumer : cpc[c] = "idle"
  /\ mutex_ = NoOwner

(* -------------------------------- C6 --------------------------------- *)
GetLatestAndClearStep(c) ==
  /\ cpc[c] = "idle"
  /\ cpc'[c] = "ret"
  /\ cop'[c] = "getLatestAndClear"

\* C6: getLatestAndClear() on a completed_ that is not empty returns the
\* bundle with the largest reference timestamp T, leaves completed_ empty and
\* leaves in processing_ exactly the entries with a timestamp > T, unchanged;
\* on an empty completed_ it returns null and changes neither map.
C6_LatestAndClear ==
  [][ \A c \in Consumers : GetLatestAndClearStep(c) =>
        IF DOMAIN completed_ # {}
        THEN LET T == Max(DOMAIN completed_)
             IN  /\ rval'[c] = [ts |-> T, frames |-> completed_[T]]
                 /\ DOMAIN completed_' = {}
                 /\ DOMAIN processing_' = {k \in DOMAIN processing_ : k > T}
                 /\ \A k \in DOMAIN processing_' : processing_'[k] = processing_[k]
        ELSE /\ rval'[c] = Null
             /\ completed_' = completed_
             /\ processing_' = processing_
    ]_vars

\* One camera, tolerance 0, three completions at distinct timestamps:
\* getLatestAndClear() has returned the bundle with the largest one and left
\* both maps empty.
C6_Witness ==
  /\ numCameras = 1
  /\ timestamp_tolerance_ns_ = 0
  /\ {b.ts : b \in everCompleted} =
       {PipelineStamp(0), PipelineStamp(1), PipelineStamp(2)}
  /\ \E c \in OneConsumer :
       /\ cpc[c] = "ret"
       /\ cop[c] = "getLatestAndClear"
       /\ rval[c].ts = PipelineStamp(2)
       /\ delivered = {Handed(c, rval[c])}
  /\ DOMAIN completed_ = {}
  /\ DOMAIN processing_ = {}

(* -------------------------------- C7 --------------------------------- *)
GetNextStep(c) ==
  /\ cpc[c] = "idle"
  /\ cop'[c] = "getNext"
  /\ cpc'[c] # "idle"

\* C7: getNext() does not wait: it goes straight to its return. When
\* completed_ is not empty it removes and returns exactly the bundle with the
\* smallest reference timestamp and leaves the others in place; when it is
\* empty it returns null and removes nothing. processing_ is unchanged.
C7_GetNext ==
  [][ \A c \in Consumers : GetNextStep(c) =>
        /\ cpc'[c] = "ret"
        /\ c \notin cv_waiters'
        /\ processing_' = processing_
        /\ IF DOMAIN completed_ # {}
           THEN LET T == Min(DOMAIN completed_)
                IN  /\ rval'[c] = [ts |-> T, frames |-> completed_[T]]
                    /\ DOMAIN completed_' = DOMAIN completed_ \ {T}
                    /\ \A k \in DOMAIN completed_' : completed_'[k] = completed_[k]
           ELSE /\ rval'[c] = Null
                /\ completed_' = completed_
    ]_vars

\* getNext() has returned the oldest of several completed bundles while a
\* worker waits to file a frame.
C7_Witness ==
  \E c \in OneConsumer :
    /\ cpc[c] = "ret"
    /\ cop[c] = "getNext"
    /\ rval[c] # Null
    /\ DOMAIN completed_ # {}
    /\ \A k \in DOMAIN completed_ : k > rval[c].ts
    /\ \E w \in Workers : wpc[w] = "lock"

(* -------------------------------- C2 --------------------------------- *)
\* Every image of every group has been handed to processImage.
AllSubmitted == Len(submitted) = MaxGroups * numCameras

\* The number of slots of completed_ that hold frame id.
SlotsHolding(id) ==
  Cardinality({kc \in (DOMAIN completed_) \X CameraIndices : completed_[kc[1]][kc[2]] = id})

\* The steps the workers still have to take for the tasks handed in.
StepsLeft(pc) ==
  CASE pc = "idle" -> 0
    [] pc = "process" -> 4
    [] pc = "lock" -> 3
    [] pc = "insert" -> 2
    [] pc = "unlock" -> 1
    [] pc = "erase" -> 1
    [] pc = "stuck" -> 4
RECURSIVE SumStepsLeft(_)
SumStepsLeft(ws) ==
  IF ws = {} THEN 0
  ELSE LET w == CHOOSE x \in ws : TRUE
       IN  StepsLeft(wpc[w]) + SumStepsLeft(ws \ {w})
Remaining == 5 * Len(tasks) + SumStepsLeft(Workers)

\* C2: with MaxGroups timestamp groups submitted to the two workers and no
\* consumer pulling, every interleaving of the tasks leads to a state with
\* exactly MaxGroups bundles in completed_, an empty processing_, and every
\* submitted frame in exactly one slot: while work is left some worker can
\* take a step, every step of a worker leaves less work, and once no work is
\* left the bundles are as said.
C2_AllGroupsComplete ==
  /\ [](~AllWorkDone => ENABLED Work)
  /\ [][submitted' = submitted => Remaining' < Remaining]_vars
  /\ []((AllSubmitted /\ AllWorkDone) =>
          /\ Cardinality(DOMAIN completed_) = MaxGroups
          /\ DOMAIN processing_ = {}
          /\ \A k \in DOMAIN completed_ : AllReceived(completed_[k])
          /\ \A id \in FrameIds : SlotsHolding(id) = 1)

\* Two cameras, tolerance 1, both groups complete, the frames of a group with
\* different stamps.
C2_Witness ==
  /\ numCameras = 2
  /\ timestamp_tolerance_ns_ = 1
  /\ AllSubmitted
  /\ AllWorkDone
  /\ Cardinality(DOMAIN completed_) = MaxGroups
  /\ \A k \in DOMAIN completed_ :
       StampOf(completed_[k][0]) # StampOf(completed_[k][1])

(* -------------------------------- C8 --------------------------------- *)
\* Consumer c's getNextBlocking() comes to its return in this step.
BlockingTakes(c) ==
  /\ cop'[c] = "getNextBlocking"
  /\ cpc[c] # "ret"
  /\ cpc'[c] = "ret"

Blocked(c) == cpc[c] \in {"wait", "woken"}

Quiescent ==
  /\ AllWorkDone
  /\ \A c \in Consumers : cpc[c] \in {"idle", "wait"}

\* C9 as claimed: with m consumers that called getNextBlocking() and k
\* bundles completed, min(m, k) of the consumers return.
C9_BlockedConsumersServed ==
  Quiescent =>
    LET m == Cardinality(Served \cup {c \in Consumers : cpc[c] = "wait"})
        k == Cardinality(everCompleted)
    IN  Cardinality(Served) >= (IF m < k THEN m ELSE k)

\* The parts of C9 the code keeps: a bundle is handed to one consumer only,
\* and a consumer that is woken and finds completed_ empty waits again.
C9_HandedOnceAndWaitAgain ==
  /\ [](\A d, e \in delivered : d.nframe = e.nframe => d.by = e.by)
  /\ [][ \A c \in Consumers :
           (cpc[c] = "woken" /\ cpc'[c] # "woken" /\ DOMAIN completed_ = {})
             => (cpc'[c] = "wait" /\ c \in cv_waiters') ]_vars

\* C9_BlockedConsumersServed where no two completed bundles share a
\* reference timestamp.
C9_ServedIfDistinct ==
  (\A a, b \in everCompleted : a.ts = b.ts => a = b) => C9_BlockedConsumersServed

(* -------------------------------- C5 --------------------------------- *)
\* processImage is called with a camera index that is no index of the rig.
CallPastEnd ==
  /\ Len(submitted') = Len(submitted) + 1
  /\ submitted'[Len(submitted')].cam >= numCameras

\* C5: processImage with a camera index >= the number of cameras fails before
\* anything is enqueued: no task is added to the pool, no pipeline is run for
\* it, and processing_ and completed_ stay as they are.
C5_IndexChecked ==
  [][ /\ CallPastEnd =>
           /\ tasks' = tasks
           /\ processing_' = processing_
           /\ completed_' = completed_
      /\ \A w \in Workers :
           (wpc[w] = "idle" /\ wpc'[w] = "process") => wframe'[w].cam < numCameras
    ]_vars

(* -------------------------------- C10 -------------------------------- *)
\* The frame work() files for the image of a call.
FrameOf(id) == [id |-> id, cam |-> submitted[id].cam, ts |-> StampOf(id)]

\* work()'s locked section applied to the maps of a run in which the tasks
\* execute one after the other: open are the bundles in progress, done the
\* frames of the bundles moved to completed_.
Filed(st, f) ==
  LET tol == timestamp_tolerance_ns_
      key == TargetKey(st.open, f.ts, tol)
      made == WithNFrame(st.open, f.ts, tol)
      set == SetFrame(made[key], f.cam, f.id)
  IN  IF AllReceived(set)
      THEN [open |-> MapErase(made, key), done |-> st.done \cup {FramesOf(set)}]
      ELSE [open |-> [made EXCEPT ![key] = set], done |-> st.done]

\* The tasks 1..n executed in the order of the calls.
RECURSIVE FiledInOrder(_)
FiledInOrder(n) ==
  IF n = 0 THEN [open |-> EmptyMap, done |-> {}]
  ELSE Filed(FiledInOrder(n - 1), FrameOf(n))

\* Which frames share a bundle, and which bundles reached completed_.
GroupingOf(open, done) ==
  [open |-> {FramesOf(open[k]) : k \in DOMAIN open}, done |-> done]
Grouping ==
  GroupingOf(processing_, {FramesOf(b.frames) : b \in everCompleted})

\* C10 as claimed: for the frames submitted, the final grouping is the same
\* for every order in which the pool executes the tasks: it is the grouping
\* that executing them in the order of the calls gives.
C10_OrderIndependent ==
  AllWorkDone =>
    LET inOrder == FiledInOrder(Len(submitted))
    IN  Grouping = GroupingOf(inOrder.open, inOrder.done)

\* The frames fall into groups: being within the tolerance is transitive, and
\* no two frames of one camera are within the tolerance.
WellSeparated ==
  /\ \A i, j, k \in FrameIds : (Near(i, j) /\ Near(j, k)) => Near(i, k)
  /\ \A i, j \in FrameIds :
       (i # j /\ submitted[i].cam = submitted[j].cam) => ~Near(i, j)

\* The frames within the tolerance of frame i.
GroupAround(i) == {j \in FrameIds : Near(i, j)}

\* C10 as amended: when the submitted frames fall into groups (frames of a
\* group within the tolerance, frames of different groups further apart, at
\* most one frame per camera in a group) and no consumer pulls, the final
\* grouping is the same for every order in which the pool executes the tasks:
\* the bundles are the groups, and the groups with a frame of every camera
\* are the bundles that reached completed_.
C10_GroupsOrderIndependent ==
  (AllWorkDone /\ WellSeparated) =>
    LET groups == {GroupAround(i) : i \in FrameIds}
        full == {g \in groups : Cardinality(g) = numCameras}
    IN  Grouping = [open |-> groups \ full, done |-> full]

\* Two cameras: the frames fall into groups, all are filed, and a completed
\* bundle has the reference timestamp of a frame that was not the first of
\* its frames to be submitted: the tasks did not execute in the order of the
\* calls.
C10_Witness ==
  /\ AllWorkDone
  /\ WellSeparated
  /\ numCameras = 2
  /\ \E b \in everCompleted : b.ts # StampOf(Min(FramesOf(b.frames)))

(* -------------------------------- C11 -------------------------------- *)
\* processImage has been called exactly twice, for the same camera, and the
\* two frames are further apart than the tolerance.
TwoFarFramesOfOneCamera ==
  /\ Len(submitted) = 2
  /\ submitted[1].cam = submitted[2].cam
  /\ ~Near(1, 2)

\* The frames a worker has filed: the task has left work()'s locked section
\* or is past setFrame in it.
FiledIds ==
  {id \in FrameIds :
     /\ \A i \in 1..Len(tasks) : tasks[i] # id
     /\ \A w \in Workers : wframe[w].id = id => wpc[w] \in {"insert", "erase", "unlock"}}

\* C11: with at least two cameras, two frames of one camera further apart
\* than the tolerance and no frame of another camera never complete a
\* bundle: completed_ stays empty, and processing_ holds one bundle per frame
\* filed (at most 2), keyed by that frame's timestamp and holding that frame
\* only: the two are never merged.
C11_FarFramesNeverComplete ==
  (numCameras >= 2 /\ TwoFarFramesOfOneCamera) =>
    /\ DOMAIN completed_ = {}
    /\ everCompleted = {}
    /\ Cardinality(DOMAIN processing_) <= 2
    /\ DOMAIN processing_ = {StampOf(id) : id \in FiledIds}
    /\ \A id \in FiledIds : FramesOf(processing_[StampOf(id)]) = {id}

\* Both frames are filed: two bundles are open, one frame in each.
C11_Witness ==
  /\ numCameras >= 2
  /\ TwoFarFramesOfOneCamera
  /\ AllWorkDone
  /\ Cardinality(DOMAIN processing_) = 2
  /\ timestamp_tolerance_ns_ = 1

(* -------------------------------- C12 -------------------------------- *)
\* Worker w files its frame in this step: work()'s locked section up to
\* all_received.
FileStep(w) == wpc[w] = "lock" /\ wpc'[w] \in {"insert", "unlock"}

\* Worker w's frame goes to a bundle of processing_ whose slot for the
\* frame's camera is already set.
Overwrites(w) ==
  /\ FileStep(w)
  /\ proc_it'[w] \in DOMAIN processing_
  /\ processing_[proc_it'[w]][wframe[w].cam] # NoFrame

\* C12: when a frame is filed into a bundle in progress whose slot for the
\* frame's camera is set, the slot holds the frame filed last afterwards, the
\* other slots of the bundle and its reference timestamp are as before, no
\* bundle is made or removed, and the pipeline goes on: the worker carries on
\* with the task and nothing aborts.
C12_LastWriterWins ==
  [][ \A w \in Workers : Overwrites(w) =>
        LET key == proc_it'[w]
            cam == wframe[w].cam
        IN  /\ processing_'[key][cam] = wframe[w].id
            /\ \A c \in CameraIndices \ {cam} :
                 processing_'[key][c] = processing_[key][c]
            /\ DOMAIN processing_' = DOMAIN processing_
            /\ \A k \in DOMAIN processing_ \ {key} : processing_'[k] = processing_[k]
            /\ completed_' = completed_
            /\ ~crashed'
    ]_vars

\* A frame was overwritten and the bundle completed afterwards: every frame
\* is filed, a completed bundle holds the later of two frames of one camera,
\* and the earlier one is in no bundle.
C12_Witness ==
  /\ AllWorkDone
  /\ \E b \in everCompleted : \E i, j \in FrameIds :
       /\ i # j
       /\ submitted[i].cam = submitted[j].cam
       /\ j \in FramesOf(b.frames)
       /\ \A e \in everCompleted : i \notin FramesOf(e.frames)
       /\ \A k \in DOMAIN processing_ : i \notin FramesOf(processing_[k])

(* -------------------------------- C13 -------------------------------- *)
\* The constructor has run.
Constructed == thread_pool_ # "null" \/ crashed

\* The configurations the constructor has to refuse.
InputCameras(a) == Deref(a.input_camera_system)
OutputCameras(a) == Deref(a.output_camera_system)
SizesDiffer(a) ==
  \/ Len(InputCameras(a)) # Len(OutputCameras(a))
  \/ Len(InputCameras(a)) # Len(a.pipelines)
ProcessorMissing(a) == \E i \in DOMAIN a.pipelines : a.pipelines[i] = NullPtr
CameraMismatch(a) ==
  \E i \in DOMAIN a.pipelines :
    /\ a.pipelines[i] # NullPtr
    /\ \/ i \in DOMAIN InputCameras(a)
          /\ Deref(a.pipelines[i]).input # InputCameras(a)[i]
       \/ i \in DOMAIN OutputCameras(a)
          /\ Deref(a.pipelines[i]).output # OutputCameras(a)[i]
InvalidConfiguration(a) ==
  \/ SizesDiffer(a)
  \/ Len(InputCameras(a)) = 0
  \/ ProcessorMissing(a)
  \/ CameraMismatch(a)
  \/ a.num_threads = 0
  \/ a.timestamp_tolerance_ns < 0
CameraSystemsGiven(a) ==
  a.input_camera_system # NullPtr /\ a.output_camera_system # NullPtr

\* C13: given an input and an output camera system, construction fails
\* exactly when their sizes and the number of pipelines differ, there is no
\* camera, a pipeline is null, a pipeline's input or output camera is not the
\* object at its index of the input or output camera system, there are no
\* threads, or the tolerance is negative. A construction that fails leaves no
\* ThreadPool and no pipeline to call; one that succeeds leaves a running
\* ThreadPool and a pipeline of the cameras and the tolerance given.
C13_ConstructionValidates ==
  Constructed =>
    /\ CameraSystemsGiven(args) => (crashed <=> InvalidConfiguration(args))
    /\ ~CameraSystemsGiven(args) => crashed
    /\ crashed => thread_pool_ = "null"
    /\ ~crashed =>
         /\ thread_pool_ = "running"
         /\ numCameras = Len(InputCameras(args))
         /\ timestamp_tolerance_ns_ = args.timestamp_tolerance_ns

\* The construction failed and the only thing wrong was the output camera of
\* the second pipeline.
C13_Witness ==
  /\ Constructed
  /\ crashed
  /\ CameraSystemsGiven(args)
  /\ Len(args.pipelines) = 2
  /\ ~SizesDiffer(args)
  /\ ~ProcessorMissing(args)
  /\ args.num_threads > 0
  /\ args.timestamp_tolerance_ns >= 0
  /\ Deref(args.pipelines[1]).input = InputCameras(args)[1]
  /\ Deref(args.pipelines[1]).output = OutputCameras(args)[1]
  /\ Deref(args.pipelines[2]).input = InputCameras(args)[2]
  /\ Deref(args.pipelines[2]).output # OutputCameras(args)[2]

(* -------------------------------- C14 -------------------------------- *)
\* The cameras with a task whose pipeline has not returned, and whether every
\* thread of the pool is in such a task.
StuckCameras == {wframe[w].cam : w \in {x \in Workers : wpc[x] = "stuck"}}
AllThreadsStuck == \A w \in PoolThreads : wpc[w] = "stuck"
QueuedIds == {tasks[i] : i \in 1..Len(tasks)}

\* C14 as claimed: a pipeline that never returns stalls its own camera only,
\* whatever the number of threads: a frame of another camera waiting in the
\* queue always has a thread left that will take it.
C14_OnlyOwnCameraStalls ==
  \A id \in QueuedIds :
    submitted[id].cam \notin StuckCameras => ~AllThreadsStuck

\* C14 as amended: as long as fewer tasks hang than the pool has threads,
\* every frame of a camera whose pipeline does not hang is filed, whether
\* submitted before or after the task that hangs; and a task that hangs holds
\* no lock: getNext() can be called whenever mutex_ is free, and whoever has
\* mutex_ can take its next step.
C14_StallsWhileThreadsLeft ==
  /\ \A id \in 1..MaxBlockingFrames :
       (id \in FrameIds)
         ~> \/ id \in FiledIds
            \/ id \in FrameIds /\ submitted[id].cam \in StuckCameras
            \/ AllThreadsStuck
  /\ [](\A w \in Workers : wpc[w] = "stuck" => mutex_ # w)
  /\ [](\A c \in OneConsumer :
          (cpc[c] = "idle" /\ mutex_ = NoOwner) => ENABLED GetNext(c))
  /\ [](\A w \in Workers : mutex_ = w => ENABLED WorkerStep(w))
  /\ [](\A c \in OneConsumer : mutex_ = c => ENABLED Return(c))

\* Two threads: the task of camera 0 hangs, and the frame of camera 1,
\* submitted after it, has been filed by the other thread.
C14_Witness ==
  /\ args.num_threads = 2
  /\ numCameras = 2
  /\ Len(submitted) = 2
  /\ submitted[1].cam = 0
  /\ submitted[2].cam = 1
  /\ \E w \in Workers : wpc[w] = "stuck" /\ wframe[w].id = 1
  /\ 2 \in FiledIds
  /\ DOMAIN processing_ # {}

(* -------------------------------- C15 -------------------------------- *)
\* waitForAllWorkToComplete() returns to caller c in this step.
WaitReturnStep(c) == cpc[c] = "waitForEmptyQueue" /\ cpc'[c] = "returned"

\* The frames in the bundles of a map, and those handed to a consumer.
HeldIn(m) == UNION {FramesOf(m[k]) : k \in DOMAIN m}
DeliveredIds == UNION {FramesOf(d.nframe.frames) : d \in delivered}

\* C15 as claimed: when waitForAllWorkToComplete() returns no task is queued
\* or executing, and every frame submitted is in a bundle of processing_ or
\* completed_ or was handed to a consumer.
C15_AllWorkInBundles ==
  [][ \A c \in Producers : WaitReturnStep(c) =>
        /\ tasks = <<>>
        /\ \A w \in Workers : wpc[w] = "idle"
        /\ FrameIds \subseteq (HeldIn(processing_) \cup HeldIn(completed_) \cup DeliveredIds)
    ]_vars

\* C15 as amended: when waitForAllWorkToComplete() returns no task is queued
\* or executing and setFrame has been called with every frame submitted;
\* a frame that is in no bundle any more was handed to a consumer, or a later
\* frame of its camera was set in its place, or its bundle completed and is
\* no longer in completed_. The return does not wait for completed_ to be
\* emptied: the call returns whenever the queue is empty and the threads are
\* idle.
C15_AllWorkInstalled ==
  /\ [][ \A c \in Producers : WaitReturnStep(c) =>
           /\ tasks = <<>>
           /\ \A w \in Workers : wpc[w] = "idle"
           /\ installed = FrameIds
           /\ \A id \in FrameIds \ (HeldIn(processing_) \cup HeldIn(completed_)) :
                \/ id \in DeliveredIds
                \/ \E b \in everCompleted : id \in FramesOf(b.frames)
                \/ \E j \in installed \ {id} : submitted[j].cam = submitted[id].cam
       ]_vars
  /\ [](\A c \in Producers :
          (cpc[c] = "waitForEmptyQueue" /\ tasks = <<>> /\ \A w \in Workers : wpc[w] = "idle")
            => ENABLED WaitReturns(c))

\* waitForAllWorkToComplete() has returned with every frame filed and
\* completed bundles that no consumer has taken.
C15_Witness ==
  /\ \E c \in Producers : cpc[c] = "returned"
  /\ Len(submitted) = MaxFrames
  /\ installed = FrameIds
  /\ AllWorkDone
  /\ DOMAIN completed_ # {}
  /\ delivered = {}

(* -------------------------------- C16 -------------------------------- *)
\* A thread of the pool takes a step of a task in this step.
TaskStep == wpc' # wpc

\* C16: the destructor stops the pool before anything else is released: when
\* processing_ and completed_ are released the pool has been stopped and its
\* threads are idle; once stop() is entered no queued task starts, while the
\* tasks in flight run to their end before stop() returns; and once the pool
\* is stopped no thread takes a step, so that after the release no task
\* touches processing_ or completed_.
C16_PoolStoppedFirst ==
  /\ [](destroyed => thread_pool_ = "stopped")
  /\ [](thread_pool_ = "stopped" => \A w \in Workers : wpc[w] = "idle")
  /\ [][thread_pool_ # "running" =>
          \A w \in Workers : wpc[w] = "idle" => wpc'[w] = "idle"]_vars
  /\ [][thread_pool_ # "running" => tasks' = tasks]_vars
  /\ [][(thread_pool_ = "stopping" /\ thread_pool_' = "stopped") =>
          (FrameIds \ QueuedIds) \subseteq installed]_vars
  /\ [][(thread_pool_ = "stopped" \/ destroyed) =>
          (~TaskStep /\ installed' = installed /\ mutex_' = mutex_)]_vars
  /\ [][destroyed => (processing_' = processing_ /\ completed_' = completed_)]_vars

\* The pipeline is gone: frames were filed before the pool stopped, and a
\* task that was still queued when stop() was entered never started.
C16_Witness ==
  /\ destroyed
  /\ installed # {}
  /\ tasks # <<>>
  /\ Len(submitted) = MaxFrames

(* -------------------------------- C17 -------------------------------- *)
\* The positions of test_vector that indices_to_remove does not list.
KeptPositions ==
  {p \in 1..Len(test_vector) :
     \A i \in DOMAIN indices_to_remove : indices_to_remove[i] # p - 1}
\* The k-th of them, in ascending order.
KeptPosition(k) ==
  CHOOSE p \in KeptPositions : Cardinality({q \in KeptPositions : q < p}) = k - 1

LeastDistance(m, t) == Min({Abs(k - t) : k \in DOMAIN m})

\* C19: the bundle work() files a frame into is, of ALL the bundles in
\* processing_, one whose reference timestamp is closest to the frame's, if
\* that distance is within the tolerance (a distance equal to the tolerance
\* included), and no bundle is made; otherwise, and when processing_ is
\* empty, a new bundle keyed by the frame's timestamp is made and the frame
\* is set in it.
C19_NearestOfAll ==
  [][ \A w \in Workers : FileStep(w) =>
        LET t == wframe[w].ts
            cam == wframe[w].cam
            key == proc_it'[w]
        IN  IF DOMAIN processing_ # {}
               /\ LeastDistance(processing_, t) <= timestamp_tolerance_ns_
            THEN /\ key \in DOMAIN processing_
                 /\ Abs(key - t) = LeastDistance(processing_, t)
                 /\ DOMAIN processing_' = DOMAIN processing_
                 /\ processing_'[key] = [processing_[key] EXCEPT ![cam] = wframe[w].id]
            ELSE /\ key = t
                 /\ t \notin DOMAIN processing_
                 /\ DOMAIN processing_' = DOMAIN processing_ \cup {t}
                 /\ processing_'[t] = [NewNFrame EXCEPT ![cam] = wframe[w].id]
    ]_vars

\* Three or more bundles are open and the frame has been filed into one in the middle,
\* which is exactly the tolerance away.
C19_Witness ==
  /\ timestamp_tolerance_ns_ = 1
  /\ Cardinality(DOMAIN processing_) >= 3
  /\ \E w \in Workers :
       /\ wpc[w] = "unlock"
       /\ Abs(proc_it[w] - wframe[w].ts) = timestamp_tolerance_ns_
       /\ \E k \in DOMAIN processing_ : k < proc_it[w]
       /\ \E k \in DOMAIN processing_ : k > proc_it[w]
       /\ FramesOf(processing_[proc_it[w]]) = {wframe[w].id}

(* -------------------------------- C20 -------------------------------- *)
\* The frame of worker w is as far from the bundle below it as from the one
\* above it, and within the tolerance of both.
Tie(w) ==
  \E lo, hi \in DOMAIN processing_ :
    /\ lo < wframe[w].ts
    /\ wframe[w].ts < hi
    /\ wframe[w].ts - lo = hi - wframe[w].ts
    /\ hi - wframe[w].ts <= timestamp_tolerance_ns_
\* The bundle below the frame of worker w.
Below(w) == Max({k \in DOMAIN processing_ : k < wframe[w].ts})

\* C20: a frame as far from the bundle below it as from the one above it,
\* and within the tolerance, is filed into the one with the smaller
\* reference timestamp, whichever of the two was made first and whatever the
\* threads did before.
C20_TieTakesLower ==
  [][ \A w \in Workers : (FileStep(w) /\ Tie(w)) =>
        /\ proc_it'[w] = Below(w)
        /\ DOMAIN processing_' = DOMAIN processing_
        /\ wframe[w].id \in FramesOf(processing_'[Below(w)])
    ]_vars

\* A tie has gone to the lower bundle, though the frame in the upper one was
\* submitted before the frame in the lower one.
C20_Witness ==
  \E w \in Workers : \E lo, hi \in DOMAIN processing_ :
    /\ wpc[w] \in {"unlock", "insert"}
    /\ proc_it[w] = lo
    /\ lo < wframe[w].ts
    /\ wframe[w].ts < hi
    /\ wframe[w].ts - lo = hi - wframe[w].ts
    /\ hi - wframe[w].ts <= timestamp_tolerance_ns_
    /\ \E i \in FramesOf(processing_[hi]) :
         \A j \in FramesOf(processing_[lo]) \ {wframe[w].id} : i < j

(* -------------------------------- C21 -------------------------------- *)
\* No thread is inside a locked section.
Unlocked == mutex_ = NoOwner

\* The bundles of completed_ are full, those of processing_ hold a frame and
\* lack one, and with one camera processing_ is empty.
SlotsAsClaimed ==
  /\ \A k \in DOMAIN completed_ : AllReceived(completed_[k])
  /\ \A k \in DOMAIN processing_ :
       /\ \E c \in CameraIndices : processing_[k][c] # NoFrame
       /\ \E c \in CameraIndices : processing_[k][c] = NoFrame
  /\ numCameras = 1 => DOMAIN processing_ = {}

\* C21 as claimed, with getNext() the only accessor in use: outside the
\* locked sections every bundle of completed_ is full, every bundle of
\* processing_ holds a frame and lacks one, and a bundle is in completed_ or
\* was handed out exactly if it became complete; with one camera processing_
\* is empty.
C21_CompleteIffQueued ==
  Unlocked =>
    /\ SlotsAsClaimed
    /\ \A b \in everCompleted :
         \/ b.ts \in DOMAIN completed_ /\ completed_[b.ts] = b.frames
         \/ \E d \in delivered : d.nframe = b
    /\ \A k \in DOMAIN completed_ :
         [ts |-> k, frames |-> completed_[k]] \in everCompleted
    /\ \A d \in delivered : d.nframe \in everCompleted

\* The part of C21 the code keeps, whatever the accessors in use.
C21_SlotsOutsideLock ==
  Unlocked =>
    /\ SlotsAsClaimed
    /\ \A k \in DOMAIN completed_ :
         [ts |-> k, frames |-> completed_[k]] \in everCompleted
    /\ \A d \in delivered : d.nframe \in everCompleted

(* -------------------------------- C22 -------------------------------- *)
\* Every accessor of the two indexes, for one consumer thread.
Accessors(c) ==
  \/ GetNext(c)
  \/ GetNextBlocking(c)
  \/ Reacquire(c)
  \/ SpuriousWakeup(c)
  \/ GetLatestAndClear(c)
  \/ GetNumFramesComplete(c)
  \/ GetNumFramesProcessing(c)
  \/ Return(c)

\* A few frames, the pool and two consumer threads using every accessor.
NextAccessors ==
  \/ ProcessImageFew
  \/ Work
  \/ \E c \in Consumers : Accessors(c)

SpecAccessors == Init /\ [][NextAccessors]_vars

\* Thread t is between taking the lock and releasing it.
InSection(t) ==
  IF t \in Workers
  THEN wpc[t] \in {"insert", "erase", "unlock"}
  ELSE cpc[t] = "ret"
\* Thread t takes the step.
StepOf(t) ==
  IF t \in Workers
  THEN wpc'[t] # wpc[t]
  ELSE cpc'[t] # cpc[t] \/ cop'[t] # cop[t]
\* A complete bundle is in completed_ and not yet out of processing_.
HalfMoved == \E w \in Workers : wpc[w] = "erase"
\* Consumer c calls the accessor named op.
Calls(c, op) == cop[c] # op /\ cop'[c] = op

\* At most one thread is inside a locked section, and it holds mutex_; the
\* processor runs without it.
OneInSection ==
  /\ Cardinality({t \in Workers \cup Consumers : InSection(t)}) <= 1
  /\ \A t \in Workers \cup Consumers : InSection(t) => mutex_ = t
  /\ \A w \in Workers : wpc[w] = "process" => mutex_ # w

\* While a thread is inside its section only that thread changes the
\* indexes, no accessor starts while a bundle is half-way, and the size
\* accessors return the size of the index and change neither index.
SectionsDoNotInterleave ==
  /\ \A t \in Workers \cup Consumers :
       InSection(t) /\ <<processing_, completed_>>' # <<processing_, completed_>>
         => StepOf(t)
  /\ mutex_ # NoOwner /\ <<processing_, completed_>>' # <<processing_, completed_>>
       => InSection(mutex_)
  /\ HalfMoved => UNCHANGED <<cop, rval, num_frames>>
  /\ \A c \in Consumers :
       /\ Calls(c, "getNumFramesComplete") =>
            /\ num_frames'[c] = Cardinality(DOMAIN completed_)
            /\ UNCHANGED <<processing_, completed_>>
       /\ Calls(c, "getNumFramesProcessing") =>
            /\ num_frames'[c] = Cardinality(DOMAIN processing_)
            /\ UNCHANGED <<processing_, completed_>>

\* C22: the locked sections of work() and of the accessors exclude each
\* other, so no two correlator steps interleave and no accessor sees a bundle
\* half-way through its move; the processor runs outside the lock; the size
\* accessors return the size of an index between two sections and change
\* nothing.
C22_MutualExclusion == []OneInSection /\ [][SectionsDoNotInterleave]_vars

\* A size accessor holds the lock with one bundle in processing_, while a
\* worker whose processor has returned waits for the lock and the other
\* consumer has not returned from getNextBlocking().
C22_Witness ==
  \E c \in Consumers :
    /\ cop[c] = "getNumFramesProcessing"
    /\ cpc[c] = "ret"
    /\ num_frames[c] = 1
    /\ \E w \in Workers : wpc[w] = "lock"
    /\ \E d \in Consumers : cop[d] = "getNextBlocking"

(* -------------------------------- C23 -------------------------------- *)
\* A new NFrame is keyed by the timestamp of the frame the processor
\* returned; a frame set in an NFrame that exists leaves every key as it is.
KeyedAtCreation(w) ==
  LET k == proc_it'[w]
      id == wframe[w].id
  IN  /\ k \in DOMAIN processing_'
      /\ k \notin DOMAIN processing_ =>
           /\ k = StampOf(id)
           /\ k # submitted[id].ts
           /\ FramesOf(processing_'[k]) = {id}
           /\ DOMAIN processing_' = DOMAIN processing_ \cup {k}
      /\ k \in DOMAIN processing_ =>
           /\ DOMAIN processing_' = DOMAIN processing_
           /\ processing_'[k] = [processing_[k] EXCEPT ![wframe[w].cam] = id]
      /\ \A j \in DOMAIN processing_ \ {k} : processing_'[j] = processing_[j]

\* The NFrame enters completed_ under the key it had in processing_.
KeyKeptOnMove(w) ==
  LET k == proc_it[w]
  IN  /\ k \notin DOMAIN completed_ =>
           /\ k \in DOMAIN completed_'
           /\ completed_'[k] = processing_[k]
      /\ DOMAIN completed_' \subseteq DOMAIN completed_ \cup {k}

\* C23: the key of an NFrame is the timestamp of the frame that created it,
\* as returned by the processor and not as passed to processImage; no later
\* frame, overwriting or not, with the same timestamp or not, changes it; and
\* the NFrame has that key in completed_.
C23_ReferenceStampFixed ==
  [][/\ \A w \in Workers : FileStep(w) => KeyedAtCreation(w)
     /\ \A w \in Workers : InsertStep(w) => KeyKeptOnMove(w)
     /\ (\A w \in Workers : ~FileStep(w)) =>
          \A j \in DOMAIN processing_ \cap DOMAIN processing_' :
            processing_'[j] = processing_[j]
     /\ \A j \in DOMAIN completed_ \cap DOMAIN completed_' :
          completed_'[j] = completed_[j]]_vars

\* A complete NFrame none of whose frames has the timestamp of its key: the
\* frame that created it was overwritten.
C23_Witness ==
  \E k \in DOMAIN completed_ :
    /\ \A id \in FramesOf(completed_[k]) : StampOf(id) # k
    /\ \E id \in installed \ FramesOf(completed_[k]) :
         /\ StampOf(id) = k
         /\ [ts |-> k, frames |-> completed_[k]] \in everCompleted

(* -------------------------------- C24 -------------------------------- *)
\* Worker w's step makes a new NFrame.
Creates(w) ==
  /\ FileStep(w)
  /\ CreateNewNFrames(processing_, wframe[w].ts, timestamp_tolerance_ns_)

\* C24: the keys of processing_ are pairwise further apart than the
\* tolerance, and a new NFrame is made under a key processing_ does not have:
\* the key is new, the NFrame under it holds the creating frame only and every
\* other NFrame is as before.
C24_KeysFurtherThanTolerance ==
  /\ [](Separated(DOMAIN processing_, timestamp_tolerance_ns_))
  /\ [][\A w \in Workers :
          Creates(w) =>
            /\ wframe[w].ts \notin DOMAIN processing_
            /\ DOMAIN processing_' = DOMAIN processing_ \cup {wframe[w].ts}
            /\ FramesOf(processing_'[wframe[w].ts]) = {wframe[w].id}
            /\ \A k \in DOMAIN processing_ : processing_'[k] = processing_[k]]_vars

\* Two NFrames in progress with a key between them, with a tolerance above
\* zero, while a frame with the timestamp in between waits for the lock.
C24_Witness ==
  /\ timestamp_tolerance_ns_ > 0
  /\ \E j, k \in DOMAIN processing_ :
       /\ k - j = 2 * timestamp_tolerance_ns_
       /\ \A c \in CameraIndices :
            processing_[j][c] = NoFrame \/ processing_[k][c] = NoFrame
       /\ \E w \in Workers :
            /\ wpc[w] = "lock"
            /\ wframe[w].ts = j + timestamp_tolerance_ns_

(* -------------------------------- C25 -------------------------------- *)
\* Every frame of the NFrame with key k is within the tolerance of k and sits
\* in the slot of the camera whose processor made it.
FramesBelong(k, nframe) ==
  \A i \in DOMAIN nframe :
    nframe[i] # NoFrame =>
      /\ nframe[i] \in FrameIds
      /\ Abs(StampOf(nframe[i]) - k) <= timestamp_tolerance_ns_
      /\ submitted[nframe[i]].cam = i

\* No two frames of the NFrame are further apart than twice the tolerance.
FramesClose(nframe) ==
  \A f, g \in FramesOf(nframe) :
    Abs(StampOf(f) - StampOf(g)) <= 2 * timestamp_tolerance_ns_

\* C25: in every NFrame of processing_ and of completed_, and in every NFrame
\* handed out, each frame has a timestamp within the tolerance of the key and
\* is in the slot of its camera, and two frames are at most twice the
\* tolerance apart.
C25_FramesWithinTolerance ==
  /\ \A k \in DOMAIN processing_ :
       FramesBelong(k, processing_[k]) /\ FramesClose(processing_[k])
  /\ \A k \in DOMAIN completed_ :
       FramesBelong(k, completed_[k]) /\ FramesClose(completed_[k])
  /\ \A d \in delivered :
       FramesBelong(d.nframe.ts, d.nframe.frames) /\ FramesClose(d.nframe.frames)

\* A complete NFrame with two frames exactly twice the tolerance apart, the
\* tolerance not being zero.
C25_Witness ==
  /\ timestamp_tolerance_ns_ > 0
  /\ \E k \in DOMAIN completed_ :
       \E f, g \in FramesOf(completed_[k]) :
         StampOf(f) - StampOf(g) = 2 * timestamp_tolerance_ns_

(* -------------------------------- C26 -------------------------------- *)
MaxResets == 2

\* Everything but the statistics registry.
otherVars == <<pipelineVars, stlVars, hashVars, sizeVars>>

\* Mutant: the functions run without the lock.
LockGuardNone(t) == stat_mutex_' = t

\* std::lock_guard<std::mutex> lock(Instance().mutex_).
LockGuard(t) ==
  /\ stat_mutex_ = NoOwner
  /\ stat_mutex_' = t

\* tag_map_[tag] = handle.
MapAssign(m, k, v) == [x \in DOMAIN m \cup {k} |-> IF x = k THEN v ELSE m[x]]

\* GetTag, the linear search from position i of the map: the first tag with
\* the handle, or the empty string.
RECURSIVE TagFrom(_, _, _)
TagFrom(m, handle, i) ==
  IF i > Len(TagOrder) THEN NoTag
  ELSE IF TagOrder[i] \in DOMAIN m /\ m[TagOrder[i]] = handle THEN TagOrder[i]
  ELSE TagFrom(m, handle, i + 1)
TagOf(m, handle) == TagFrom(m, handle, 1)

\* GetHandle(tag): take the lock and search the tag; a tag that is there
\* gives its handle, for a new one the handle is the number of collectors.
GetHandleFind(t, tag) ==
  /\ call[t].pc = "idle"
  /\ LockGuard(t)
  /\ call' = [call EXCEPT ![t] =
       IF tag \in DOMAIN tag_map_
       THEN [pc |-> "ret", op |-> "GetHandle", tag |-> tag,
             handle |-> tag_map_[tag]]
       ELSE [pc |-> "store", op |-> "GetHandle", tag |-> tag,
             handle |-> Len(stats_collectors_)]]
  /\ UNCHANGED <<tag_map_, stats_collectors_, max_tag_length_, resets, issued,
                 otherVars>>

\* GetHandle: Instance().tag_map_[tag] = handle.
GetHandleStore(t) ==
  /\ call[t].pc = "store"
  /\ tag_map_' = MapAssign(tag_map_, call[t].tag, call[t].handle)
  /\ call' = [call EXCEPT ![t].pc = "push"]
  /\ UNCHANGED <<stats_collectors_, max_tag_length_, stat_mutex_, resets, issued,
                 otherVars>>

\* A new collector.
StatisticsMapValue == [samples |-> 0]

\* GetHandle: the collector is pushed back and max_tag_length_ updated.
GetHandlePush(t) ==
  /\ call[t].pc = "push"
  /\ stats_collectors_' = Append(stats_collectors_, StatisticsMapValue)
  /\ max_tag_length_' = Max({max_tag_length_, Len(call[t].tag)})
  /\ call' = [call EXCEPT ![t].pc = "ret"]
  /\ UNCHANGED <<tag_map_, stat_mutex_, resets, issued, otherVars>>

\* GetTag(handle): take the lock and search the handle.
GetTag(t, handle) ==
  /\ call[t].pc = "idle"
  /\ LockGuard(t)
  /\ call' = [call EXCEPT ![t] =
       [pc |-> "ret", op |-> "GetTag", tag |-> TagOf(tag_map_, handle),
        handle |-> handle]]
  /\ UNCHANGED <<tag_map_, stats_collectors_, max_tag_length_, resets, issued,
                 otherVars>>

\* Reset(): take the lock and clear tag_map_.
Reset(t) ==
  /\ call[t].pc = "idle"
  /\ resets < MaxResets
  /\ LockGuard(t)
  /\ tag_map_' = EmptyMap
  /\ resets' = resets + 1
  /\ call' = [call EXCEPT ![t] =
       [pc |-> "ret", op |-> "Reset", tag |-> NoTag, handle |-> 0]]
  /\ UNCHANGED <<stats_collectors_, max_tag_length_, issued, otherVars>>

\* The function returns and its lock_guard releases the mutex.
StatReturn(t) ==
  /\ call[t].pc = "ret"
  /\ stat_mutex_' = NoOwner
  /\ issued' =
       IF call[t].op = "GetHandle"
       THEN issued \cup {[tag |-> call[t].tag, handle |-> call[t].handle,
                          resets |-> resets]}
       ELSE issued
  /\ call' = [call EXCEPT ![t] = NoCall]
  /\ UNCHANGED <<tag_map_, stats_collectors_, max_tag_length_, resets,
                 otherVars>>

InitStatistics ==
  /\ NoPipeline
  /\ StlHelpersUnused
  /\ HashIdUnused
  /\ NoSizeAsked
  /\ StatisticsUnused

NextStatistics ==
  \E t \in StatThreads :
    \/ \E tag \in Tags : GetHandleFind(t, tag)
    \/ GetHandleStore(t)
    \/ GetHandlePush(t)
    \/ \E handle \in 0..Len(stats_collectors_) : GetTag(t, handle)
    \/ Reset(t)
    \/ StatReturn(t)

SpecStatistics == InitStatistics /\ [][NextStatistics]_vars

\* C26: two different tags never got the same handle, Reset() or not; with
\* no Reset() between them two calls with the same tag got the same handle,
\* and GetTag of that handle gives the tag; every handle given out is below
\* the number of collectors.
C26_HandlesDistinctAndValid ==
  /\ \A x, y \in issued : x.tag # y.tag => x.handle # y.handle
  /\ \A x, y \in issued :
       x.tag = y.tag /\ x.resets = y.resets => x.handle = y.handle
  /\ \A x \in issued : x.handle < Len(stats_collectors_)
  /\ \A x \in issued : x.resets = resets => TagOf(tag_map_, x.handle) = x.tag
  /\ \A t \in StatThreads :
       call[t].pc = "ret" /\ call[t].op = "GetTag" =>
         \A x \in issued :
           x.handle = call[t].handle /\ x.resets = resets =>
             call[t].tag = x.tag

\* After a Reset() both tags have handles again, one tag has a new handle,
\* and GetTag has found the tag of a handle given out since, while GetTag of a
\* handle from before the Reset() finds none.
C26_Witness ==
  /\ \E x, y, z \in issued :
       /\ x.tag = y.tag /\ x.resets < y.resets /\ x.handle < y.handle
       /\ z.tag # y.tag /\ z.resets = y.resets /\ y.resets = resets
       /\ \E t \in StatThreads :
            /\ call[t].pc = "ret" /\ call[t].op = "GetTag"
            /\ call[t].handle = y.handle /\ call[t].tag = y.tag
       /\ \E t \in StatThreads :
            /\ call[t].pc = "idle"
            /\ TagOf(tag_map_, x.handle) = NoTag

=============================================================================
